---- MODULE Spec2Model ----
(***************************************************************************)
(* Model of the tenant-isolated data access engine: the four database      *)
(* adapters (PostgreSQL, MySQL, Supabase, MongoDB), the Redis cache        *)
(* adapter and the DataManagerV3 facade that composes adapter and cache.   *)
(***************************************************************************)
EXTENDS Integers, Sequences, FiniteSets, TLC

(***************************************************************************)
(* Bounds of the model.                                                    *)
(***************************************************************************)
\* how many ids uuidv4() / the database default can hand out in one run
MaxRecords == 2
\* longest batch passed to bulkCreate
MaxBatch == 2
\* longest logical cache key (in characters) of the cache-level model
MaxKeyLen == 2

(***************************************************************************)
(* Values.  Every field value is a string, so that any two can be compared.*)
(***************************************************************************)
\* absent property / SQL NULL / JavaScript undefined
UNDEF == "UNDEF"
\* tenant ids: TenantContextSchema declares tenant_id as a uuid string
Tenants == {"a", "b"}
\* the ids uuidv4() returns, in the order it returns them
UuidSeq == <<"r1", "r2", "r3", "r4">>
Uuids == {UuidSeq[i] : i \in 1..MaxRecords}
\* strings that a uuid-typed column accepts
UuidLike == Tenants \cup Uuids
\* caller-chosen text values; "b" is tenant b's id written as text
NameVals == {"x", "b"}
\* a JavaScript Date object, and the ISO string it serialises to
DATE == "Date"
ISO == "IsoString"
\* the columns / fields of a stored record; "_id" is MongoDB's primary key
Fields == {"_id", "id", "tenant_id", "name", "created_at", "updated_at"}
\* the configured backend.  constThrows tells how the build treats the
\* assignment to a const binding in PostgreSQLAdapter.read: an ES2015+ build
\* throws a TypeError, a down-levelled (ES5) build performs the assignment
BackendTypes == {"postgresql", "mysql", "supabase", "mongodb"}
Backends ==
  {b \in [type : BackendTypes, constThrows : BOOLEAN] :
     b.constThrows => b.type = "postgresql"}

(***************************************************************************)
(* JavaScript objects with insertion-ordered keys: sequences of            *)
(* <<key, value>> pairs with distinct keys.                                *)
(***************************************************************************)
ObjHas(o, k) == \E i \in 1..Len(o) : o[i][1] = k

ObjGet(o, k) ==
  IF ObjHas(o, k) THEN o[CHOOSE i \in 1..Len(o) : o[i][1] = k][2] ELSE UNDEF

\* o[k] = v: an existing key keeps its position, a new key is appended
ObjPut(o, k, v) ==
  IF ObjHas(o, k)
    THEN [i \in 1..Len(o) |-> IF o[i][1] = k THEN <<k, v>> ELSE o[i]]
    ELSE Append(o, <<k, v>>)

RECURSIVE ObjSpread(_, _)
\* {...a, ...b}
ObjSpread(a, b) ==
  IF b = <<>> THEN a
  ELSE ObjSpread(ObjPut(a, Head(b)[1], Head(b)[2]), Tail(b))

ObjKeys(o) == [i \in 1..Len(o) |-> o[i][1]]
ObjValues(o) == [i \in 1..Len(o) |-> o[i][2]]

\* the object as a record over Fields (absent properties are UNDEF)
ToRow(o) == [f \in Fields |-> ObjGet(o, f)]

\* the payloads a caller passes as data / updates: any subset of the keys
\* name and tenant_id, in either key order; a payload's tenant_id is tenant
\* b's id (another tenant's id for a call made under tenant a)
PayloadTenants == {"b"}
Payloads ==
  {<<>>}
  \cup {<< <<"name", n>> >> : n \in NameVals}
  \cup {<< <<"tenant_id", t>> >> : t \in PayloadTenants}
  \cup {<< <<"name", n>>, <<"tenant_id", t>> >> : n \in NameVals, t \in PayloadTenants}
  \cup {<< <<"tenant_id", t>>, <<"name", n>> >> : n \in NameVals, t \in PayloadTenants}

\* QueryOptions: at most one equality filter, optional limit and offset
\* (0 stands for an absent limit / offset: both are falsy in the code)
FilterKeys == {"id", "tenant_id", "name"}
FilterVals(k) ==
  IF k = "id" THEN Uuids ELSE IF k = "tenant_id" THEN Tenants ELSE NameVals
Filters == {<<>>} \cup {<< <<k, v>> >> : k \in FilterKeys, v \in UuidLike \cup NameVals}
QueryOptions ==
  {[filter |-> f, limit |-> l, offset |-> o] :
     f \in {g \in Filters : g = <<>> \/ g[1][2] \in FilterVals(g[1][1])},
     l \in {0, 1}, o \in {0, 1}}

(***************************************************************************)
(* DataResult values and thrown errors.                                    *)
(*   kind  "ok"    : { data }                                              *)
(*         "error" : { data: null, error: message }                        *)
(*         "throw" : the call rejects with an SDKError subclass            *)
(*   shape of data: "row", "rows", "undefined" or "null"                   *)
(*   count -1 stands for an absent count                                   *)
(***************************************************************************)
OkRow(r) ==
  [kind |-> "ok", shape |-> "row", rows |-> <<r>>, count |-> -1,
   cls |-> "", code |-> "", status |-> 0, msg |-> ""]
OkRows(rs, c) ==
  [kind |-> "ok", shape |-> "rows", rows |-> rs, count |-> c,
   cls |-> "", code |-> "", status |-> 0, msg |-> ""]
OkUndefined ==
  [kind |-> "ok", shape |-> "undefined", rows |-> <<>>, count |-> -1,
   cls |-> "", code |-> "", status |-> 0, msg |-> ""]
OkNull ==
  [kind |-> "ok", shape |-> "null", rows |-> <<>>, count |-> -1,
   cls |-> "", code |-> "", status |-> 0, msg |-> ""]
ErrorResult(m) ==
  [kind |-> "error", shape |-> "null", rows |-> <<>>, count |-> -1,
   cls |-> "", code |-> "", status |-> 0, msg |-> m]
Thrown(c, code, status, m) ==
  [kind |-> "throw", shape |-> "null", rows |-> <<>>, count |-> -1,
   cls |-> c, code |-> code, status |-> status, msg |-> m]
DataError(m, code, status) == Thrown("DataError", code, status, m)

\* ErrorCodes
RESOURCE_NOT_FOUND == "RESOURCE_NOT_FOUND"
DATABASE_ERROR == "DATABASE_ERROR"
INVALID_QUERY == "INVALID_QUERY"

\* result.data is truthy
Truthy(res) == res.kind = "ok" /\ res.shape \in {"row", "rows"}

(***************************************************************************)
(* The backing store: one table / collection, a sequence of rows in        *)
(* insertion order.  The relational backends type their columns: id and    *)
(* tenant_id are uuid columns, created_at and updated_at are timestamp     *)
(* columns, name is text.                                                  *)
(***************************************************************************)
ColumnAccepts(col, v) ==
  CASE col \in {"id", "tenant_id"} -> v \in UuidLike
    [] col \in {"created_at", "updated_at"} -> v \in {DATE, ISO}
    [] col = "name" -> TRUE
    [] OTHER -> FALSE

Min(a, b) == IF a < b THEN a ELSE b

\* rows offset+1 .. offset+limit of a result (limit 0: no limit)
Window(rows, offset, limit) ==
  SubSeq(rows, offset + 1,
         IF limit = 0 THEN Len(rows) ELSE Min(Len(rows), offset + limit))

\* "col = value" for every entry of the filter object
MatchesAll(row, filter) ==
  \A i \in 1..Len(filter) :
     /\ filter[i][1] \in Fields
     /\ row[filter[i][1]] # UNDEF
     /\ row[filter[i][1]] = filter[i][2]

Where(st, filter) == SelectSeq(st, LAMBDA r : MatchesAll(r, filter))

\* the row that a parameter list binds to a column list
RowOf(columns, values) ==
  [f \in Fields |->
     IF \E i \in 1..Len(columns) : columns[i] = f
       THEN values[CHOOSE i \in 1..Len(columns) : columns[i] = f]
       ELSE UNDEF]

RECURSIVE Flatten(_)
Flatten(seqs) == IF seqs = <<>> THEN <<>> ELSE Head(seqs) \o Flatten(Tail(seqs))

\* INSERT INTO t (columns) VALUES (...), (...) with one flat parameter list:
\* the i-th group of Len(columns) parameters is the i-th row.  The statement
\* fails as a whole when the parameter count does not fit, a value does not
\* fit its column, or the primary key is missing or duplicated.
SqlRows(columns, params, n) ==
  [i \in 1..n |->
     RowOf(columns, SubSeq(params, (i - 1) * Len(columns) + 1, i * Len(columns)))]

SqlInsertOk(st, columns, params, n) ==
  /\ Len(params) = n * Len(columns)
  /\ LET rows == SqlRows(columns, params, n) IN
       /\ \A i \in 1..n : \A f \in Fields :
            rows[i][f] # UNDEF => ColumnAccepts(f, rows[i][f])
       /\ \A i \in 1..n : rows[i].id # UNDEF /\ rows[i].tenant_id # UNDEF
       /\ \A i \in 1..n : \A j \in 1..Len(st) : st[j].id # rows[i].id
       /\ \A i, j \in 1..n : i # j => rows[i].id # rows[j].id

\* UPDATE ... SET (updateData) on the rows that satisfy the filter
SetFields(row, updateData) ==
  [f \in Fields |-> IF ObjHas(updateData, f) THEN ObjGet(updateData, f) ELSE row[f]]

UpdateWhere(st, filter, updateData) ==
  [i \in 1..Len(st) |->
     IF MatchesAll(st[i], filter) THEN SetFields(st[i], updateData) ELSE st[i]]

DeleteWhere(st, filter) == SelectSeq(st, LAMBDA r : ~MatchesAll(r, filter))

\* MongoDB: the document returned to the caller has _id renamed to id
MongoConvert(doc) == [doc EXCEPT !["id"] = doc["_id"], !["_id"] = UNDEF]

(***************************************************************************)
(* PostgreSQLAdapter                                                       *)
(***************************************************************************)
PgStamp(data, uuid, ctx) ==
  ObjSpread(data, << <<"id", uuid>>, <<"tenant_id", ctx>>,
                     <<"created_at", DATE>>, <<"updated_at", DATE>> >>)

PgCreate(st, data, ctx, uuid) ==
  LET recordData == PgStamp(data, uuid, ctx)
      columns == ObjKeys(recordData)
      values == ObjValues(recordData)
  IN IF SqlInsertOk(st, columns, values, 1)
       THEN [st |-> st \o SqlRows(columns, values, 1),
             res |-> OkRow(SqlRows(columns, values, 1)[1])]
       ELSE [st |-> st, res |-> ErrorResult("insert failed")]

\* the count statement is built by appending to a const binding, which
\* throws a TypeError as soon as one filter entry is appended
PgRead(st, options, ctx, constThrows) ==
  LET matched == Where(st, << <<"tenant_id", ctx>> >> \o options.filter)
      rows == Window(matched, options.offset, options.limit)
  IN IF options.limit # 0 \/ options.offset # 0
       THEN IF options.filter # <<>> /\ constThrows
              THEN [st |-> st, res |-> ErrorResult("Assignment to constant variable.")]
              ELSE [st |-> st, res |-> OkRows(rows, Len(matched))]
       ELSE [st |-> st, res |-> OkRows(rows, -1)]

PgUpdate(st, id, updates, ctx) ==
  LET updateData == ObjSpread(updates, << <<"updated_at", DATE>> >>)
      filter == << <<"id", id>>, <<"tenant_id", ctx>> >>
      after == UpdateWhere(st, filter, updateData)
      hit == {i \in 1..Len(st) : MatchesAll(st[i], filter)}
  IN IF \E i \in 1..Len(updateData) :
          ~ColumnAccepts(updateData[i][1], updateData[i][2])
       THEN [st |-> st, res |-> ErrorResult("update failed")]
       ELSE IF hit = {}
         THEN [st |-> st,
               res |-> DataError("Record not found or update failed",
                                 RESOURCE_NOT_FOUND, 404)]
         ELSE [st |-> after, res |-> OkRow(after[CHOOSE i \in hit : TRUE])]

\* PgDelete with the tenant_id condition left out of the WHERE clause
PgDeleteAnyTenant(st, id, ctx) ==
  LET filter == << <<"id", id>> >>
  IN IF Where(st, filter) = <<>>
       THEN [st |-> st, res |-> DataError("Record not found", RESOURCE_NOT_FOUND, 404)]
       ELSE [st |-> DeleteWhere(st, filter), res |-> OkUndefined]

PgDelete(st, id, ctx) ==
  LET filter == << <<"id", id>>, <<"tenant_id", ctx>> >>
  IN IF Where(st, filter) = <<>>
       THEN [st |-> st, res |-> DataError("Record not found", RESOURCE_NOT_FOUND, 404)]
       ELSE [st |-> DeleteWhere(st, filter), res |-> OkUndefined]

\* the column list is taken from the first record, the parameters from
\* every record in that record's own key order
PgBulkCreate(st, records, ctx, uuids) ==
  IF records = <<>> THEN [st |-> st, res |-> OkRows(<<>>, -1)]
  ELSE
    LET recordsWithTenant ==
          [i \in 1..Len(records) |-> PgStamp(records[i], uuids[i], ctx)]
        columns == ObjKeys(recordsWithTenant[1])
        params == Flatten([i \in 1..Len(records) |-> ObjValues(recordsWithTenant[i])])
    IN IF SqlInsertOk(st, columns, params, Len(records))
         THEN [st |-> st \o SqlRows(columns, params, Len(records)),
               res |-> OkRows(SqlRows(columns, params, Len(records)), -1)]
         ELSE [st |-> st, res |-> ErrorResult("insert failed")]

(***************************************************************************)
(* MySQLAdapter                                                            *)
(***************************************************************************)
MyCreate(st, data, ctx, uuid) ==
  LET recordData == PgStamp(data, uuid, ctx)
      columns == ObjKeys(recordData)
      values == ObjValues(recordData)
      after == st \o SqlRows(columns, values, 1)
      rows == Where(after, << <<"id", uuid>> >>)
  IN IF ~SqlInsertOk(st, columns, values, 1)
       THEN [st |-> st, res |-> ErrorResult("insert failed")]
       ELSE IF rows = <<>>
         THEN [st |-> after,
               res |-> DataError("Failed to create record", DATABASE_ERROR, 500)]
         ELSE [st |-> after, res |-> OkRow(rows[1])]

\* MySQL rejects OFFSET without LIMIT
MyRead(st, options, ctx) ==
  LET matched == Where(st, << <<"tenant_id", ctx>> >> \o options.filter)
      rows == Window(matched, options.offset, options.limit)
  IN IF options.limit = 0 /\ options.offset # 0
       THEN [st |-> st, res |-> ErrorResult("You have an error in your SQL syntax")]
       ELSE [st |-> st,
             res |-> OkRows(rows, IF options.limit # 0 \/ options.offset # 0
                                    THEN Len(matched) ELSE -1)]

\* the updated record is read back by id and the context's tenant_id
MyUpdate(st, id, updates, ctx) ==
  LET updateData == ObjSpread(updates, << <<"updated_at", DATE>> >>)
      filter == << <<"id", id>>, <<"tenant_id", ctx>> >>
      after == UpdateWhere(st, filter, updateData)
      rows == Where(after, filter)
  IN IF \E i \in 1..Len(updateData) :
          ~ColumnAccepts(updateData[i][1], updateData[i][2])
       THEN [st |-> st, res |-> ErrorResult("update failed")]
       ELSE IF Where(st, filter) = <<>>
         THEN [st |-> st,
               res |-> DataError("Record not found or update failed",
                                 RESOURCE_NOT_FOUND, 404)]
         ELSE [st |-> after,
               res |-> IF rows = <<>> THEN OkUndefined ELSE OkRow(rows[1])]

MyDelete(st, id, ctx) ==
  LET filter == << <<"id", id>>, <<"tenant_id", ctx>> >>
  IN IF Where(st, filter) = <<>>
       THEN [st |-> st, res |-> DataError("Record not found", RESOURCE_NOT_FOUND, 404)]
       ELSE [st |-> DeleteWhere(st, filter), res |-> OkUndefined]

\* the inserted records are read back by the generated ids and the
\* context's tenant_id
MyBulkCreate(st, records, ctx, uuids) ==
  IF records = <<>> THEN [st |-> st, res |-> OkRows(<<>>, -1)]
  ELSE
    LET recordsWithTenant ==
          [i \in 1..Len(records) |-> PgStamp(records[i], uuids[i], ctx)]
        columns == ObjKeys(recordsWithTenant[1])
        params == Flatten([i \in 1..Len(records) |-> ObjValues(recordsWithTenant[i])])
        after == st \o SqlRows(columns, params, Len(records))
        ids == {uuids[i] : i \in 1..Len(records)}
    IN IF SqlInsertOk(st, columns, params, Len(records))
         THEN [st |-> after,
               res |-> OkRows(SelectSeq(after, LAMBDA r :
                                 r.id \in ids /\ r.tenant_id = ctx), -1)]
         ELSE [st |-> st, res |-> ErrorResult("insert failed")]

(***************************************************************************)
(* SupabaseAdapter.  The id is the column default of the database; rows    *)
(* are bound by key; .single() reports an error unless exactly one row     *)
(* comes back; delete reports no error when no row matches.                *)
(***************************************************************************)
SbStamp(data, ctx) ==
  ObjSpread(data, << <<"tenant_id", ctx>>, <<"created_at", ISO>>,
                     <<"updated_at", ISO>> >>)

SbCreate(st, data, ctx, uuid) ==
  LET row == [ToRow(SbStamp(data, ctx)) EXCEPT !["id"] = uuid]
  IN [st |-> Append(st, row), res |-> OkRow(row)]

\* count: 'exact' is always requested; range(offset, offset + (limit || 10) - 1)
SbRead(st, options, ctx) ==
  LET matched == Where(st, << <<"tenant_id", ctx>> >> \o options.filter)
      rows == IF options.offset # 0
                THEN Window(matched, options.offset,
                            IF options.limit # 0 THEN options.limit ELSE 10)
                ELSE Window(matched, 0, options.limit)
  IN [st |-> st, res |-> OkRows(rows, Len(matched))]

SbUpdate(st, id, updates, ctx) ==
  LET updateData == ObjSpread(updates, << <<"updated_at", ISO>> >>)
      filter == << <<"id", id>>, <<"tenant_id", ctx>> >>
      after == UpdateWhere(st, filter, updateData)
      hit == {i \in 1..Len(st) : MatchesAll(st[i], filter)}
  IN IF hit = {}
       THEN [st |-> st,
             res |-> DataError("Failed to update record", DATABASE_ERROR, 500)]
       ELSE [st |-> after, res |-> OkRow(after[CHOOSE i \in hit : TRUE])]

SbDelete(st, id, ctx) ==
  [st |-> DeleteWhere(st, << <<"id", id>>, <<"tenant_id", ctx>> >>),
   res |-> OkUndefined]

SbBulkCreate(st, records, ctx, uuids) ==
  LET rows == [i \in 1..Len(records) |->
                 [ToRow(SbStamp(records[i], ctx)) EXCEPT !["id"] = uuids[i]]]
  IN [st |-> st \o rows, res |-> OkRows(rows, -1)]

(***************************************************************************)
(* MongoDBAdapter.  Documents are keyed by _id; the caller's filter        *)
(* entries are assigned into the query object that starts out as           *)
(* { tenant_id: context.tenant_id }.                                       *)
(***************************************************************************)
MgStamp(data, uuid, ctx) ==
  ObjSpread(ObjSpread(<< <<"_id", uuid>> >>, data),
            << <<"tenant_id", ctx>>, <<"created_at", DATE>>,
               <<"updated_at", DATE>> >>)

MgCreate(st, data, ctx, uuid) ==
  LET document == ToRow(MgStamp(data, uuid, ctx))
  IN [st |-> Append(st, document), res |-> OkRow(MongoConvert(document))]

MgQuery(options, ctx) == ObjSpread(<< <<"tenant_id", ctx>> >>, options.filter)

MapSeq(s, F(_)) == [i \in 1..Len(s) |-> F(s[i])]

MgRead(st, options, ctx) ==
  LET query == MgQuery(options, ctx)
      matched == Where(st, query)
      documents == Window(matched, options.offset, options.limit)
  IN [st |-> st,
      res |-> OkRows(MapSeq(documents, MongoConvert),
                     IF options.limit # 0 \/ options.offset # 0
                       THEN Len(matched) ELSE -1)]

MgUpdate(st, id, updates, ctx) ==
  LET updateData == ObjSpread(updates, << <<"updated_at", DATE>> >>)
      filter == << <<"_id", id>>, <<"tenant_id", ctx>> >>
      after == UpdateWhere(st, filter, updateData)
      hit == {i \in 1..Len(st) : MatchesAll(st[i], filter)}
  IN IF hit = {}
       THEN [st |-> st,
             res |-> DataError("Document not found or update failed",
                               RESOURCE_NOT_FOUND, 404)]
       ELSE [st |-> after,
             res |-> OkRow(MongoConvert(after[CHOOSE i \in hit : TRUE]))]

MgDelete(st, id, ctx) ==
  LET filter == << <<"_id", id>>, <<"tenant_id", ctx>> >>
  IN IF Where(st, filter) = <<>>
       THEN [st |-> st, res |-> DataError("Document not found", RESOURCE_NOT_FOUND, 404)]
       ELSE [st |-> DeleteWhere(st, filter), res |-> OkUndefined]

MgBulkCreate(st, records, ctx, uuids) ==
  IF records = <<>> THEN [st |-> st, res |-> OkRows(<<>>, -1)]
  ELSE
    LET documents == [i \in 1..Len(records) |->
                        ToRow(MgStamp(records[i], uuids[i], ctx))]
    IN [st |-> st \o documents, res |-> OkRows(MapSeq(documents, MongoConvert), -1)]

(***************************************************************************)
(* IDatabaseAdapter: the call dispatched to the configured backend.        *)
(***************************************************************************)
AdapterCreate(b, st, data, ctx, uuid) ==
  CASE b.type = "postgresql" -> PgCreate(st, data, ctx, uuid)
    [] b.type = "mysql" -> MyCreate(st, data, ctx, uuid)
    [] b.type = "supabase" -> SbCreate(st, data, ctx, uuid)
    [] b.type = "mongodb" -> MgCreate(st, data, ctx, uuid)

AdapterRead(b, st, options, ctx) ==
  CASE b.type = "postgresql" -> PgRead(st, options, ctx, b.constThrows)
    [] b.type = "mysql" -> MyRead(st, options, ctx)
    [] b.type = "supabase" -> SbRead(st, options, ctx)
    [] b.type = "mongodb" -> MgRead(st, options, ctx)

AdapterUpdate(b, st, id, updates, ctx) ==
  CASE b.type = "postgresql" -> PgUpdate(st, id, updates, ctx)
    [] b.type = "mysql" -> MyUpdate(st, id, updates, ctx)
    [] b.type = "supabase" -> SbUpdate(st, id, updates, ctx)
    [] b.type = "mongodb" -> MgUpdate(st, id, updates, ctx)

AdapterDelete(b, st, id, ctx) ==
  CASE b.type = "postgresql" -> PgDelete(st, id, ctx)
    [] b.type = "mysql" -> MyDelete(st, id, ctx)
    [] b.type = "supabase" -> SbDelete(st, id, ctx)
    [] b.type = "mongodb" -> MgDelete(st, id, ctx)

AdapterBulkCreate(b, st, records, ctx, uuids) ==
  CASE b.type = "postgresql" -> PgBulkCreate(st, records, ctx, uuids)
    [] b.type = "mysql" -> MyBulkCreate(st, records, ctx, uuids)
    [] b.type = "supabase" -> SbBulkCreate(st, records, ctx, uuids)
    [] b.type = "mongodb" -> MgBulkCreate(st, records, ctx, uuids)

(***************************************************************************)
(* RedisCacheAdapter.  The Redis keyspace is a function from physical keys *)
(* to entries; a key is a sequence of characters (multi-character tokens   *)
(* are used for the fixed parts).  An entry keeps the serialised value and *)
(* its TTL; owner and lkey record, for the properties only, the context    *)
(* and the logical key of the call that wrote it.                          *)
(***************************************************************************)
\* the tenants of the cache-level model: the id "ab" extends the id "a"
CacheTenants == {"a", "ab"}
\* the characters of a tenant id (a uuid: hex digits and '-', never ':')
Chars(t) ==
  CASE t = "a" -> <<"a">>
    [] t = "b" -> <<"b">>
    [] t = "ab" -> <<"a", "b">>

\* config.keyPrefix || 'mt_sdk'
KeyPrefix == <<"mt_sdk">>
\* this.config.defaultTTL || 3600
DefaultTTL == 3600

\* getTenantKey with no ':' between the tenant id and the logical key
getTenantKeyUnseparated(key, tenantId) ==
  KeyPrefix \o <<":", "tenant", ":">> \o Chars(tenantId) \o key

getTenantKey(key, tenantId) ==
  KeyPrefix \o <<":", "tenant", ":">> \o Chars(tenantId) \o <<":">> \o key

\* JSON.stringify followed by JSON.parse: a Date comes back as its ISO string
JsonRow(r) == [f \in Fields |-> IF r[f] = DATE THEN ISO ELSE r[f]]
serialize(value) ==
  [shape |-> value.shape, rows |-> MapSeq(value.rows, JsonRow), num |-> value.num]
deserialize(stored) == stored

RowValue(r) == [shape |-> "row", rows |-> <<r>>, num |-> 0]
RowsValue(rs) == [shape |-> "rows", rows |-> rs, num |-> 0]
NumValue(n) == [shape |-> "num", rows |-> <<>>, num |-> n]
NullValue == [shape |-> "null", rows |-> <<>>, num |-> 0]

Put(rd, p, e) == [q \in DOMAIN rd \cup {p} |-> IF q = p THEN e ELSE rd[q]]
Drop(rd, ps) == [q \in DOMAIN rd \ ps |-> rd[q]]

\* redis.get + deserialize; null when the key is absent
CacheGet(rd, key, tenant) ==
  LET tenantKey == getTenantKey(key, tenant)
  IN IF tenantKey \in DOMAIN rd THEN deserialize(rd[tenantKey].val) ELSE NullValue

\* ttlSeconds || this.config.defaultTTL || 3600
Expiry(ttlSeconds) == IF ttlSeconds # 0 THEN ttlSeconds ELSE DefaultTTL
\* Redis SETEX takes a positive number of seconds and answers any other
\* with 'ERR invalid expire time', writing nothing
SetexAccepts(ttl) == ttl > 0

\* set through redis.set, which gives the key no expiry (ttl 0)
CacheSetNoExpiry(rd, key, value, tenant, ttlSeconds) ==
  Put(rd, getTenantKey(key, tenant),
      [val |-> serialize(value), ttl |-> 0, owner |-> tenant, lkey |-> key])

CacheSet(rd, key, value, tenant, ttlSeconds) ==
  LET tenantKey == getTenantKey(key, tenant)
      ttl == Expiry(ttlSeconds)
  IN IF SetexAccepts(ttl)
       THEN Put(rd, tenantKey,
                [val |-> serialize(value), ttl |-> ttl, owner |-> tenant, lkey |-> key])
       ELSE rd

CacheDelete(rd, key, tenant) == Drop(rd, {getTenantKey(key, tenant)})

CacheExists(rd, key, tenant) == getTenantKey(key, tenant) \in DOMAIN rd

RECURSIVE GlobMatch(_, _)
\* Redis KEYS pattern matching: '*' matches any run, '?' one character
GlobMatch(pattern, str) ==
  IF pattern = <<>> THEN str = <<>>
  ELSE IF Head(pattern) = "*"
    THEN GlobMatch(Tail(pattern), str)
         \/ (str # <<>> /\ GlobMatch(pattern, Tail(str)))
  ELSE IF Head(pattern) = "?"
    THEN str # <<>> /\ GlobMatch(Tail(pattern), Tail(str))
  ELSE str # <<>> /\ Head(str) = Head(pattern)
       /\ GlobMatch(Tail(pattern), Tail(str))

\* clearTenant with the pattern `${prefix}:tenant:${tenantId}*`
CacheClearTenantByPrefix(rd, tenantId) ==
  LET pattern == KeyPrefix \o <<":", "tenant", ":">> \o Chars(tenantId) \o <<"*">>
      keys == {p \in DOMAIN rd : GlobMatch(pattern, p)}
  IN Drop(rd, keys)

\* keys = redis.keys(getTenantKey('*', tenantId)); redis.del(...keys)
CacheClearTenant(rd, tenantId) ==
  LET pattern == getTenantKey(<<"*">>, tenantId)
      keys == {p \in DOMAIN rd : GlobMatch(pattern, p)}
  IN Drop(rd, keys)

\* redis.incrby: an absent key counts from 0 and gets no expiry (ttl 0); a
\* value that is not an integer makes the command, and the call, fail
CacheIncrement(rd, key, tenant, amount) ==
  LET tenantKey == getTenantKey(key, tenant)
  IN IF tenantKey \notin DOMAIN rd
       THEN [rd |-> Put(rd, tenantKey, [val |-> NumValue(amount), ttl |-> 0,
                                        owner |-> tenant, lkey |-> key]),
             ok |-> TRUE, val |-> NumValue(amount)]
       ELSE IF rd[tenantKey].val.shape = "num"
         THEN [rd |-> [rd EXCEPT ![tenantKey].val = NumValue(@.num + amount)],
               ok |-> TRUE, val |-> NumValue(rd[tenantKey].val.num + amount)]
         ELSE [rd |-> rd, ok |-> FALSE, val |-> NullValue]

RECURSIVE CacheMset(_, _, _, _)
\* one setex per entry of keyValues (a sequence of <<key, value>>)
CacheMset(rd, keyValues, tenant, ttlSeconds) ==
  IF keyValues = <<>> THEN rd
  ELSE CacheMset(CacheSet(rd, Head(keyValues)[1], Head(keyValues)[2], tenant, ttlSeconds),
                 Tail(keyValues), tenant, ttlSeconds)

CacheMget(rd, keys, tenant) == [i \in 1..Len(keys) |-> CacheGet(rd, keys[i], tenant)]

(***************************************************************************)
(* DataManagerV3: the facade over adapter, cache and audit log.  A facade  *)
(* state is [st, rd, au]: the store, the Redis keyspace and the audit_logs *)
(* table; every operator returns the state after the call and its result.  *)
(* cacheOn says whether a cache provider was configured.                   *)
(***************************************************************************)
Table == "projects"

\* `${table}:${id}`
IdKey(id) == <<Table, ":", id>>

NumStr(n) == IF n = 0 THEN "absent" ELSE "1"

\* JSON.stringify(options)
JsonOptions(options) ==
  Flatten(options.filter) \o <<"limit", NumStr(options.limit),
                               "offset", NumStr(options.offset)>>

\* `${table}:query:${JSON.stringify(options)}:${context.tenant_id}`
QueryKey(options, ctx) ==
  <<Table, ":query:">> \o JsonOptions(options) \o <<":", ctx>>

\* `search:${table}:${searchTerm}:${JSON.stringify(options)}:${context.tenant_id}`
SearchKey(term, useCache, ctx) ==
  <<"search", ":", Table, ":", term, ":",
    IF useCache THEN "undefined" ELSE "useCache:false", ":", ctx>>

\* the logData of a call of createAuditLog
AuditEntry(action, ctx, id) ==
  [action |-> action, tenant_id |-> ctx, resource_id |-> id]

\* { data: cached }
FromCache(cached) ==
  [kind |-> "ok", shape |-> cached.shape, rows |-> cached.rows, count |-> -1,
   cls |-> "", code |-> "", status |-> 0, msg |-> ""]

FCreate(b, s, data, ctx, uuid, skipCache, cacheOn) ==
  LET a == AdapterCreate(b, s.st, data, ctx, uuid)
  IN IF Truthy(a.res)
       THEN [st |-> a.st,
             rd |-> IF cacheOn /\ ~skipCache
                      THEN CacheSet(s.rd, IdKey(a.res.rows[1].id),
                                    RowValue(a.res.rows[1]), ctx, 3600)
                      ELSE s.rd,
             au |-> Append(s.au, AuditEntry("CREATE", ctx, a.res.rows[1].id)),
             res |-> a.res]
       ELSE [st |-> a.st, rd |-> s.rd, au |-> s.au, res |-> a.res]

FRead(b, s, options, ctx, useCache, cacheOn) ==
  LET cacheKey == QueryKey(options, ctx)
      cached == CacheGet(s.rd, cacheKey, ctx)
      a == AdapterRead(b, s.st, options, ctx)
  IN IF cacheOn /\ useCache /\ cached.shape # "null"
       THEN [st |-> s.st, rd |-> s.rd, au |-> s.au, res |-> FromCache(cached)]
       ELSE [st |-> a.st,
             rd |-> IF Truthy(a.res) /\ cacheOn /\ useCache
                      THEN CacheSet(s.rd, cacheKey, RowsValue(a.res.rows), ctx, 300)
                      ELSE s.rd,
             au |-> s.au,
             res |-> a.res]

FGetById(b, s, id, ctx, useCache, cacheOn) ==
  LET cacheKey == IdKey(id)
      cached == CacheGet(s.rd, cacheKey, ctx)
      a == AdapterRead(b, s.st,
                       [filter |-> << <<"id", id>> >>, limit |-> 1, offset |-> 0],
                       ctx)
      found == Truthy(a.res) /\ a.res.rows # <<>>
  IN IF cacheOn /\ useCache /\ cached.shape # "null"
       THEN [st |-> s.st, rd |-> s.rd, au |-> s.au, res |-> FromCache(cached)]
       ELSE IF a.res.kind = "throw"
         THEN [st |-> s.st, rd |-> s.rd, au |-> s.au, res |-> a.res]
         ELSE [st |-> a.st,
               rd |-> IF found /\ cacheOn /\ useCache
                        THEN CacheSet(s.rd, cacheKey, RowValue(a.res.rows[1]),
                                      ctx, 3600)
                        ELSE s.rd,
               au |-> s.au,
               res |-> IF found THEN OkRow(a.res.rows[1]) ELSE OkNull]

FUpdate(b, s, id, updates, ctx, skipCache, invalidateCache, cacheOn) ==
  LET a == AdapterUpdate(b, s.st, id, updates, ctx)
      set == CacheSet(s.rd, IdKey(id), RowValue(a.res.rows[1]), ctx, 3600)
  IN IF Truthy(a.res)
       THEN [st |-> a.st,
             rd |-> IF cacheOn /\ ~skipCache
                      THEN IF invalidateCache THEN CacheClearTenant(set, ctx)
                                              ELSE set
                      ELSE s.rd,
             au |-> Append(s.au, AuditEntry("UPDATE", ctx, id)),
             res |-> a.res]
       ELSE [st |-> a.st, rd |-> s.rd, au |-> s.au, res |-> a.res]

FDelete(b, s, id, ctx, invalidateCache, cacheOn) ==
  LET a == AdapterDelete(b, s.st, id, ctx)
      del == CacheDelete(s.rd, IdKey(id), ctx)
  IN IF a.res.kind = "ok" /\ a.res.shape = "undefined"
       THEN [st |-> a.st,
             rd |-> IF cacheOn
                      THEN IF invalidateCache THEN CacheClearTenant(del, ctx)
                                              ELSE del
                      ELSE s.rd,
             au |-> Append(s.au, AuditEntry("DELETE", ctx, id)),
             res |-> a.res]
       ELSE [st |-> a.st, rd |-> s.rd, au |-> s.au, res |-> a.res]

RECURSIVE CacheSetAll(_, _, _)
CacheSetAll(rd, rows, ctx) ==
  IF rows = <<>> THEN rd
  ELSE CacheSetAll(CacheSet(rd, IdKey(Head(rows).id), RowValue(Head(rows)), ctx, 3600),
                   Tail(rows), ctx)

RECURSIVE FBulkLoop(_, _, _, _, _, _, _, _, _)
\* the loop over the batches: a batch the adapter rejects adds nothing to
\* results and the loop goes on
FBulkLoop(b, s, records, ctx, uuids, batchSize, skipCache, cacheOn, results) ==
  IF records = <<>> THEN [st |-> s.st, rd |-> s.rd, au |-> s.au, rows |-> results]
  ELSE
    LET n == Min(batchSize, Len(records))
        a == AdapterBulkCreate(b, s.st, SubSeq(records, 1, n), ctx, SubSeq(uuids, 1, n))
        s1 == [st |-> a.st,
               rd |-> IF Truthy(a.res) /\ cacheOn /\ ~skipCache
                        THEN CacheSetAll(s.rd, a.res.rows, ctx) ELSE s.rd,
               au |-> s.au]
    IN FBulkLoop(b, s1, SubSeq(records, n + 1, Len(records)), ctx,
                 SubSeq(uuids, n + 1, Len(uuids)), batchSize, skipCache, cacheOn,
                 IF Truthy(a.res) THEN results \o a.res.rows ELSE results)

FBulkCreate(b, s, records, ctx, uuids, batchSize, skipCache, cacheOn) ==
  LET l == FBulkLoop(b, s, records, ctx, uuids, batchSize, skipCache, cacheOn, <<>>)
  IN [st |-> l.st, rd |-> l.rd,
      au |-> l.au \o MapSeq(l.rows, LAMBDA r : AuditEntry("BULK_CREATE", ctx, r.id)),
      res |-> OkRows(l.rows, -1)]

\* adapter.query of the search statement (MySQL placeholders, ILIKE): the
\* PostgreSQL and MySQL servers reject it, the MongoDB adapter is handed a
\* string for an aggregation pipeline; on Supabase the statement goes to the
\* execute_sql database function, which either fails (rpcOk false) or
\* returns the tenant's rows whose name matches
AdapterSearch(b, st, term, ctx, rpcOk) ==
  CASE b.type = "supabase" ->
         IF rpcOk
           THEN OkRows(SelectSeq(st, LAMBDA r : r.tenant_id = ctx /\ r.name = term), -1)
           ELSE DataError("Query execution failed", INVALID_QUERY, 400)
    [] OTHER -> ErrorResult("query failed")

FSearch(b, s, term, ctx, useCache, rpcOk, cacheOn) ==
  LET cacheKey == SearchKey(term, useCache, ctx)
      cached == CacheGet(s.rd, cacheKey, ctx)
      r == AdapterSearch(b, s.st, term, ctx, rpcOk)
  IN IF cacheOn /\ useCache /\ cached.shape # "null"
       THEN [st |-> s.st, rd |-> s.rd, au |-> s.au, res |-> FromCache(cached)]
       ELSE [st |-> s.st,
             rd |-> IF Truthy(r) /\ cacheOn /\ useCache
                      THEN CacheSet(s.rd, cacheKey, RowsValue(r.rows), ctx, 300)
                      ELSE s.rd,
             au |-> s.au,
             res |-> r]

(***************************************************************************)
(* DataManager: the first facade, written directly against Supabase.       *)
(* update and delete select the existing record by id and tenant_id with   *)
(* .single() before they touch it.                                         *)
(***************************************************************************)
DmUpdate(s, id, updates, ctx) ==
  LET filter == << <<"id", id>>, <<"tenant_id", ctx>> >>
      existingRecord == Where(s.st, filter)
      updateData == ObjSpread(updates, << <<"updated_at", ISO>> >>)
      after == UpdateWhere(s.st, filter, updateData)
      hit == {i \in 1..Len(s.st) : MatchesAll(s.st[i], filter)}
  IN IF Len(existingRecord) # 1
       THEN [st |-> s.st, rd |-> s.rd, au |-> s.au,
             res |-> DataError("Record not found", RESOURCE_NOT_FOUND, 404)]
       ELSE [st |-> after, rd |-> s.rd,
             au |-> Append(s.au, AuditEntry("UPDATE", ctx, id)),
             res |-> OkRow(after[CHOOSE i \in hit : TRUE])]

DmDelete(s, id, ctx) ==
  LET filter == << <<"id", id>>, <<"tenant_id", ctx>> >>
      existingRecord == Where(s.st, filter)
  IN IF Len(existingRecord) # 1
       THEN [st |-> s.st, rd |-> s.rd, au |-> s.au,
             res |-> DataError("Record not found", RESOURCE_NOT_FOUND, 404)]
       ELSE [st |-> DeleteWhere(s.st, filter), rd |-> s.rd,
             au |-> Append(s.au, AuditEntry("DELETE", ctx, id)),
             res |-> OkUndefined]

(***************************************************************************)
(* MigrationManager.  The migrations table is keyed by migration id; the   *)
(* manager reaches it only through adapter.query.                          *)
(***************************************************************************)
\* number of migrations of the catalogue
MaxMigs == 2
\* calls of runMigrations / rollbackTo that may be in progress together
MaxRuns == 2
\* lock timers that may be waiting to fire together
MaxTimers == 2

MigSeq == <<"m1", "m2", "m3", "m4">>
MigIds == {MigSeq[i] : i \in 1..MaxMigs}

\* the i-th migration; ids and versions are both ascending in i
Migration(i) ==
  [id |-> MigSeq[i], name |-> "n", version |-> i, up |-> "up", down |-> "down"]
Catalogue == {Migration(i) : i \in 1..MaxMigs}
VersionOf(id) == CHOOSE i \in 1..MaxMigs : MigSeq[i] = id

\* MigrationStatus
PENDING == "pending"
RUNNING == "running"
COMPLETED == "completed"
FAILED == "failed"
ROLLED_BACK == "rolled_back"
\* no row with this id
ABSENT == "absent"

CONFIGURATION_ERROR == "CONFIGURATION_ERROR"
SDKError(m, code, status) == Thrown("SDKError", code, status, m)

\* config.lockTimeout (default), milliseconds
LockTimeout == 30000

\* adapter.query(sql, params) with '?' placeholders: MySQL binds them;
\* PostgreSQL wants $1..$n and rejects the statement; the Supabase adapter
\* hands statement and parameters to the execute_sql function; the MongoDB
\* adapter takes an aggregation pipeline and rejects every SQL string
AcceptsPlaceholders(b) == b.type \in {"mysql", "supabase"}
\* adapter.query(sql) with no parameters reaches the database
ExecutesSql(b) == b.type # "mongodb"
\* a statement the database rejects: the Supabase adapter throws DataError,
\* the others catch the error and return {data: null, error}
QueryThrows(b) == b.type = "supabase"

\* validateMigration: the message of the error it throws, "" if none
validateMigration(m) ==
  IF m.id = "" THEN "Migration ID is required"
  ELSE IF m.name = "" THEN "Migration name is required"
  ELSE IF m.up = "" THEN "Migration up SQL is required"
  ELSE IF m.down = "" THEN "Migration down SQL is required"
  ELSE ""

\* SELECT id FROM migrations WHERE status = ? with [COMPLETED], made a Set.
\* answered: the database answers the statement; an error result has data
\* null and the set is empty
ExecutedIds(b, tbl, answered) ==
  IF AcceptsPlaceholders(b) /\ answered
  THEN {id \in MigIds : tbl[id] = COMPLETED}
  ELSE {}

\* getPendingMigrations: the filter validates each migration and keeps, in the
\* caller's order, those whose id is not in the set
FirstInvalid(list) ==
  IF \E i \in 1..Len(list) : validateMigration(list[i]) # ""
  THEN validateMigration(
         list[CHOOSE i \in 1..Len(list) :
                /\ validateMigration(list[i]) # ""
                /\ \A j \in 1..(i - 1) : validateMigration(list[j]) = ""])
  ELSE ""
getPendingMigrations(b, tbl, list, answered) ==
  SelectSeq(list, LAMBDA m : m.id \notin ExecutedIds(b, tbl, answered))

RECURSIVE OrderByVersionDesc(_)
OrderByVersionDesc(ids) ==
  IF ids = {} THEN <<>>
  ELSE LET top == CHOOSE x \in ids : \A y \in ids : VersionOf(y) <= VersionOf(x)
       IN  <<top>> \o OrderByVersionDesc(ids \ {top})

\* SELECT * FROM migrations WHERE version > ? AND status = ?
\* ORDER BY version DESC
getMigrationsToRollback(b, tbl, targetVersion, answered) ==
  IF AcceptsPlaceholders(b) /\ answered
  THEN OrderByVersionDesc({id \in MigIds :
                             tbl[id] = COMPLETED /\ VersionOf(id) > targetVersion})
  ELSE <<>>

\* Array.prototype.reverse
Reverse(s) == [i \in 1..Len(s) |-> s[Len(s) + 1 - i]]

\* the list rollbackTo loops over
RollbackOrder(b, tbl, targetVersion, answered) ==
  Reverse(getMigrationsToRollback(b, tbl, targetVersion, answered))

\* runSingleMigration on migration id, whose forward script succeeds in the
\* database iff upOk.  ran: the forward script reached the database
runSingleMigration(b, tbl, id, upOk) ==
  LET inserted == AcceptsPlaceholders(b) /\ tbl[id] = ABSENT
      t1 == IF inserted THEN [tbl EXCEPT ![id] = RUNNING] ELSE tbl
      startThrows == QueryThrows(b) /\ ~inserted
      ran == ~startThrows /\ ExecutesSql(b)
      upThrows == ran /\ ~upOk /\ QueryThrows(b)
      caught == startThrows \/ upThrows
      recorded == AcceptsPlaceholders(b) /\ t1[id] # ABSENT
      t2 == IF ~recorded THEN t1
            ELSE [t1 EXCEPT ![id] = IF caught THEN FAILED ELSE COMPLETED]
  IN  [tbl |-> t2, id |-> id, status |-> IF caught THEN FAILED ELSE COMPLETED,
       ran |-> ran, ok |-> ran /\ upOk]

\* rollbackSingleMigration without its DELETE FROM migrations WHERE id = ?
rollbackKeepsRecord(b, tbl, id, downOk) ==
  LET ran == ExecutesSql(b)
      caught == ran /\ ~downOk /\ QueryThrows(b)
  IN  [tbl |-> tbl, id |-> id, status |-> IF caught THEN FAILED ELSE ROLLED_BACK,
       ran |-> ran, ok |-> ran /\ downOk]

\* rollbackSingleMigration on the row of id, whose reverse script succeeds in
\* the database iff downOk
rollbackSingleMigration(b, tbl, id, downOk) ==
  LET ran == ExecutesSql(b)
      caught == ran /\ ~downOk /\ QueryThrows(b)
      deleted == ~caught /\ AcceptsPlaceholders(b)
  IN  [tbl |-> IF deleted THEN [tbl EXCEPT ![id] = ABSENT] ELSE tbl,
       id |-> id, status |-> IF caught THEN FAILED ELSE ROLLED_BACK,
       ran |-> ran, ok |-> ran /\ downOk]

\* getMigrationStatus: SELECT status FROM migrations, counted by status
getMigrationStatus(b, tbl) ==
  LET rows == IF ExecutesSql(b) THEN {id \in MigIds : tbl[id] # ABSENT} ELSE {}
      count(s) == Cardinality({id \in rows : tbl[id] = s})
  IN  [total |-> Cardinality(rows), executed |-> count(COMPLETED),
       pending |-> count(PENDING), failed |-> count(FAILED)]

\* a call in progress: pc is its position ("idle": no call, "locked": after
\* acquireLock, "loop": in the for loop); list and target are its arguments,
\* which it reads for the last time when it builds todo, the ids the loop
\* still has to visit; results is what the loop has collected
RunRec(kind, pc, list, target, todo, results) ==
  [kind |-> kind, pc |-> pc, list |-> list, target |-> target,
   todo |-> todo, results |-> results]
IdleRun == RunRec("none", "idle", <<>>, 0, <<>>, <<>>)
\* a call that ended: the results it returned (out is OkUndefined) or the
\* error it threw; held: it had acquired the lock; valid: no migration of
\* its list has an empty required field
Finished(kind, results, out, held, valid) ==
  [kind |-> kind, results |-> results, out |-> out, held |-> held, valid |-> valid]
NoneFinished == Finished("none", <<>>, OkNull, FALSE, TRUE)

(***************************************************************************)
(* State.                                                                  *)
(***************************************************************************)
VARIABLES
  backend,   \* the configured backend (fixed for a run)
  store,     \* the rows of the table / documents of the collection
  redis,     \* the Redis keyspace
  audit,     \* the entries handed to createAuditLog, in order
  issued,    \* how many generated ids have been handed out
  last,      \* the last call: its layer, inputs and outcome
  migrations, \* the migrations table: the status of each migration id's row
  isLocked,  \* MigrationManager.isLocked
  timers,    \* lock timers scheduled by acquireLock and not yet fired
  runs,      \* the calls of runMigrations and rollbackTo in progress, each with its position
  finished,  \* the last call of runMigrations or rollbackTo that returned or threw
  faults,    \* how many cache commands have failed
  inUse,     \* the pooled connections / sessions that are checked out
  txns,      \* the connections / sessions held by open transaction handles
  session,   \* the tenant context variable of each connection's database session
  calls,     \* the raw queries in progress: each caller's position and tenant
  isolation, \* the policies, row-security flags, views, indexes and migrated changes of the database
  setup,     \* the call of setupTenantIsolation in progress and the calls before it
  stats,     \* RedisCacheAdapter.stats: hits, misses and hitRate
  events     \* the EventManager: its configuration, queue, retry counters and deliveries

migVars == <<migrations, isLocked, timers, runs, finished>>
poolVars == <<inUse, txns>>
rawVars == <<session, calls>>
isoVars == <<isolation, setup>>
auxVars == <<faults, inUse, txns, session, calls, isolation, setup, events>>

vars ==
  <<backend, store, redis, audit, issued, last,
    migrations, isLocked, timers, runs, finished, faults, inUse, txns, session, calls,
    isolation, setup, stats, events>>

\* longest audit log of a run (bounds the number of facade mutations)
MaxAudit == 2
\* connections the pool hands out at most
MaxConns == 2
\* concurrent callers of the raw query
MaxCallers == 2
\* no call of setupTenantIsolation yet: pc is the statement to run next (0:
\* no call in progress), done the number of calls that returned, after
\* the objects the last of them left
NoSetup == [pc |-> 0, tenant |-> UNDEF, done |-> 0, after |-> {}]
\* stats as constructed; hitRate is kept as the fraction <<hits, total>>
\* it was computed from
\* no EventManager constructed yet
NoEvents == [constructed |-> FALSE]
NoStats == [hits |-> 0, misses |-> 0, hitRate |-> <<0, 1>>]
\* a caller with no raw query in progress
IdleCaller == [pc |-> "idle", tenant |-> UNDEF]

EmptyRedis == [p \in {} |-> NullValue]

NoOptions == [filter |-> <<>>, limit |-> 0, offset |-> 0]

\* the record of a call.  res is its outcome; ref is the outcome of the same
\* facade call on the same store with no cache provider configured; audited
\* is FALSE if the call had an audit entry to write and the write failed, and
\* aref is the outcome of the same call when the audit write succeeds
Call(layer, op, tenant, id, options, res, ref) ==
  [layer |-> layer, op |-> op, tenant |-> tenant, id |-> id,
   options |-> options, res |-> res, ref |-> ref, audited |-> TRUE, aref |-> res]

NoCall == Call("none", "none", UNDEF, UNDEF, NoOptions, OkNull, OkNull)

Init ==
  /\ backend \in Backends
  /\ store = <<>>
  /\ redis = EmptyRedis
  /\ audit = <<>>
  /\ issued = 0
  /\ last = NoCall
  /\ migrations = [id \in MigIds |-> ABSENT]
  /\ isLocked = FALSE
  /\ timers = 0
  /\ runs = [r \in 1..MaxRuns |-> IdleRun]
  /\ finished = NoneFinished
  /\ faults = 0
  /\ inUse = {}
  /\ txns = {}
  /\ session = [c \in 1..MaxConns |-> UNDEF]
  /\ calls = [p \in 1..MaxCallers |-> IdleCaller]
  /\ isolation = {}
  /\ setup = NoSetup
  /\ stats = NoStats
  /\ events = NoEvents

\* the next n generated ids
Fresh(n) == [i \in 1..n |-> UuidSeq[issued + i]]

Batches == UNION {[1..n -> Payloads] : n \in 0..MaxBatch}

\* the primary key of a stored row
Pk(row) == IF backend.type = "mongodb" THEN row["_id"] ELSE row.id

(***************************************************************************)
(* Calls made directly on the adapter (IDatabaseAdapter).                  *)
(***************************************************************************)
ACreate(t, data) ==
  /\ issued < MaxRecords
  /\ LET a == AdapterCreate(backend, store, data, t, Fresh(1)[1]) IN
       /\ store' = a.st
       /\ last' = Call("adapter", "create", t, UNDEF, NoOptions, a.res, a.res)
  /\ issued' = issued + 1
  /\ UNCHANGED <<backend, redis, audit, migVars, auxVars, stats>>

ARead(t, options) ==
  /\ LET a == AdapterRead(backend, store, options, t) IN
       /\ store' = a.st
       /\ last' = Call("adapter", "read", t, UNDEF, options, a.res, a.res)
  /\ UNCHANGED <<backend, redis, audit, issued, migVars, auxVars, stats>>

AUpdate(t, id, updates) ==
  /\ LET a == AdapterUpdate(backend, store, id, updates, t) IN
       /\ store' = a.st
       /\ last' = Call("adapter", "update", t, id, NoOptions, a.res, a.res)
  /\ UNCHANGED <<backend, redis, audit, issued, migVars, auxVars, stats>>

ADelete(t, id) ==
  /\ LET a == AdapterDelete(backend, store, id, t) IN
       /\ store' = a.st
       /\ last' = Call("adapter", "delete", t, id, NoOptions, a.res, a.res)
  /\ UNCHANGED <<backend, redis, audit, issued, migVars, auxVars, stats>>

ABulkCreate(t, records) ==
  /\ issued + Len(records) <= MaxRecords
  /\ LET a == AdapterBulkCreate(backend, store, records, t, Fresh(Len(records))) IN
       /\ store' = a.st
       /\ last' = Call("adapter", "bulkCreate", t, UNDEF, NoOptions, a.res, a.res)
  /\ issued' = issued + Len(records)
  /\ UNCHANGED <<backend, redis, audit, migVars, auxVars, stats>>

AdapterNext ==
  \/ \E t \in Tenants, data \in Payloads : ACreate(t, data)
  \/ \E t \in Tenants, options \in QueryOptions : ARead(t, options)
  \/ \E t \in Tenants, id \in Uuids, updates \in Payloads : AUpdate(t, id, updates)
  \/ \E t \in Tenants, id \in Uuids : ADelete(t, id)
  \/ \E t \in Tenants, records \in Batches : ABulkCreate(t, records)

AdapterSpec == Init /\ [][AdapterNext]_vars

(***************************************************************************)
(* Calls made on the facade (DataManagerV3) with a cache provider          *)
(* configured.  The facade never consults the cache before it mutates the  *)
(* store, so the store of a run with no cache provider goes through the    *)
(* same states; ref is what the call returns in that run.                  *)
(***************************************************************************)
\* the inputs of the facade-level model
FacadePayloads == {<< <<"name", n>> >> : n \in NameVals}
FacadeOptions ==
  {NoOptions, [filter |-> << <<"id", UuidSeq[1]>> >>, limit |-> 0, offset |-> 0]}
FacadeBatches == UNION {[1..n -> FacadePayloads] : n \in 0..MaxBatch}
\* options.batchSize: one record per batch, or the default of 100
BatchSizes == {1, 100}
SearchTerms == {"x"}
\* the facade-level model follows the calls of one tenant
FacadeTenants == {"a"}

Facade == [st |-> store, rd |-> redis, au |-> audit]
NoCache == [st |-> store, rd |-> EmptyRedis, au |-> audit]

Apply(f, call) ==
  /\ store' = f.st
  /\ redis' = f.rd
  /\ audit' = f.au
  /\ last' = call

\* createAuditLog with no try/catch around the insert: its failure is the
\* failure of the call
createAuditLogUnguarded(f, before, auditOk) ==
  IF auditOk \/ Len(f.au) = Len(before) THEN f
  ELSE [f EXCEPT !.res = ErrorResult("audit_logs insert failed")]

\* createAuditLog: f is the outcome of a facade call and before the audit
\* log it started from.  The insert through databaseAdapter.create of the
\* entries the call adds succeeds iff auditOk; a failure is caught and logged
\* to the console, and nothing of the call depends on it
createAuditLog(f, before, auditOk) ==
  LET thrown == Len(f.au) > Len(before) /\ ~auditOk
      caught == thrown
  IN  IF thrown /\ ~caught
      THEN [f EXCEPT !.res = ErrorResult("audit_logs insert failed")]
      ELSE f

\* the record of a mutating facade call f; h is the same call with the audit
\* write succeeding
Audited(call, f, h, auditOk) ==
  [call EXCEPT !.audited = auditOk \/ Len(f.au) = Len(audit), !.aref = h.res]

Create(t, data, skipCache, auditOk) ==
  /\ issued < MaxRecords
  /\ Len(audit) < MaxAudit
  /\ LET c == FCreate(backend, Facade, data, t, Fresh(1)[1], skipCache, TRUE)
         f == createAuditLog(c, audit, auditOk)
         h == createAuditLog(c, audit, TRUE)
         g == FCreate(backend, NoCache, data, t, Fresh(1)[1], skipCache, FALSE)
     IN Apply(f, Audited(Call("facade", "create", t,
                              IF Truthy(f.res) THEN f.res.rows[1].id ELSE UNDEF,
                              NoOptions, f.res, g.res), f, h, auditOk))
  /\ issued' = issued + 1
  /\ UNCHANGED <<backend, migVars, auxVars, stats>>

Read(t, options, useCache) ==
  /\ LET f == FRead(backend, Facade, options, t, useCache, TRUE)
         g == FRead(backend, NoCache, options, t, useCache, FALSE)
     IN Apply(f, Call("facade", "read", t, UNDEF, options, f.res, g.res))
  /\ UNCHANGED <<backend, issued, migVars, auxVars, stats>>

GetById(t, id, useCache) ==
  /\ LET f == FGetById(backend, Facade, id, t, useCache, TRUE)
         g == FGetById(backend, NoCache, id, t, useCache, FALSE)
     IN Apply(f, Call("facade", "getById", t, id, NoOptions, f.res, g.res))
  /\ UNCHANGED <<backend, issued, migVars, auxVars, stats>>

Update(t, id, updates, skipCache, invalidateCache, auditOk) ==
  /\ Len(audit) < MaxAudit
  /\ LET c == FUpdate(backend, Facade, id, updates, t, skipCache, invalidateCache, TRUE)
         f == createAuditLog(c, audit, auditOk)
         h == createAuditLog(c, audit, TRUE)
         g == FUpdate(backend, NoCache, id, updates, t, skipCache, invalidateCache, FALSE)
     IN Apply(f, Audited(Call("facade", "update", t, id, NoOptions, f.res, g.res),
                         f, h, auditOk))
  /\ UNCHANGED <<backend, issued, migVars, auxVars, stats>>

Delete(t, id, invalidateCache, auditOk) ==
  /\ Len(audit) < MaxAudit
  /\ LET c == FDelete(backend, Facade, id, t, invalidateCache, TRUE)
         f == createAuditLog(c, audit, auditOk)
         h == createAuditLog(c, audit, TRUE)
         g == FDelete(backend, NoCache, id, t, invalidateCache, FALSE)
     IN Apply(f, Audited(Call("facade", "delete", t, id, NoOptions, f.res, g.res),
                         f, h, auditOk))
  /\ UNCHANGED <<backend, issued, migVars, auxVars, stats>>

BulkCreate(t, records, batchSize, skipCache, auditOk) ==
  /\ issued + Len(records) <= MaxRecords
  /\ Len(audit) + Len(records) <= MaxAudit
  /\ LET u == Fresh(Len(records))
         c == FBulkCreate(backend, Facade, records, t, u, batchSize, skipCache, TRUE)
         f == createAuditLog(c, audit, auditOk)
         h == createAuditLog(c, audit, TRUE)
         g == FBulkCreate(backend, NoCache, records, t, u, batchSize, skipCache, FALSE)
     IN Apply(f, Audited(Call("facade", "bulkCreate", t, UNDEF, NoOptions, f.res, g.res),
                         f, h, auditOk))
  /\ issued' = issued + Len(records)
  /\ UNCHANGED <<backend, migVars, auxVars, stats>>

Search(t, term, useCache, rpcOk) ==
  /\ LET f == FSearch(backend, Facade, term, t, useCache, rpcOk, TRUE)
         g == FSearch(backend, NoCache, term, t, useCache, rpcOk, FALSE)
     IN Apply(f, Call("facade", "search", t, UNDEF, NoOptions, f.res, g.res))
  /\ UNCHANGED <<backend, issued, migVars, auxVars, stats>>

Next ==
  \/ \E t \in FacadeTenants, data \in FacadePayloads, skipCache \in BOOLEAN,
        auditOk \in BOOLEAN :
       Create(t, data, skipCache, auditOk)
  \/ \E t \in FacadeTenants, options \in FacadeOptions, useCache \in BOOLEAN :
       Read(t, options, useCache)
  \/ \E t \in FacadeTenants, id \in Uuids, useCache \in BOOLEAN : GetById(t, id, useCache)
  \/ \E t \in FacadeTenants, id \in Uuids, updates \in FacadePayloads,
        skipCache \in BOOLEAN, invalidateCache \in BOOLEAN, auditOk \in BOOLEAN :
       Update(t, id, updates, skipCache, invalidateCache, auditOk)
  \/ \E t \in FacadeTenants, id \in Uuids, invalidateCache \in BOOLEAN,
        auditOk \in BOOLEAN :
       Delete(t, id, invalidateCache, auditOk)
  \/ \E t \in FacadeTenants, records \in FacadeBatches, batchSize \in BatchSizes,
        skipCache \in BOOLEAN, auditOk \in BOOLEAN :
       BulkCreate(t, records, batchSize, skipCache, auditOk)
  \/ \E t \in FacadeTenants, term \in SearchTerms, useCache \in BOOLEAN, rpcOk \in BOOLEAN :
       Search(t, term, useCache, rpcOk)

Spec == Init /\ [][Next]_vars

(***************************************************************************)
(* bulkCreate of records that do not all have the same keys.               *)
(***************************************************************************)
\* Partial<T> records: with a name, or with no field at all
MixedPayloads == {<<>>, << <<"name", "x">> >>}
MixedBatches == UNION {[1..n -> MixedPayloads] : n \in 0..MaxBatch}

BulkNext ==
  \E t \in FacadeTenants, records \in MixedBatches, batchSize \in BatchSizes,
     skipCache \in BOOLEAN, auditOk \in BOOLEAN :
    BulkCreate(t, records, batchSize, skipCache, auditOk)

BulkSpec == Init /\ [][BulkNext]_vars

(***************************************************************************)
(* DataManagerV3 over a cache provider whose redis commands can fail.      *)
(***************************************************************************)
\* most cache commands that fail in a run
MaxFaults == 1

\* the cache method whose redis command fails during the call, if any
CacheFaults == {"none", "get", "set", "delete"}

\* the catch block of RedisCacheAdapter.get, set and delete
CacheError(op) == SDKError("Failed to " \o op \o " cache value", DATABASE_ERROR, 500)

\* the catch block of the facade methods: a DataError is thrown on, any
\* other error becomes an error result
catchError(error) ==
  IF error.cls = "DataError" THEN error ELSE ErrorResult(error.msg)

\* the call leaves its try block at the cache call that throws: the adapter's
\* work up to there stays, the cache and the audit log are as they were
Caught(st, s, op) ==
  [st |-> st, rd |-> s.rd, au |-> s.au, res |-> catchError(CacheError(op))]

FCreateFaulty(b, s, data, ctx, uuid, skipCache, fault) ==
  LET a == AdapterCreate(b, s.st, data, ctx, uuid)
  IN IF Truthy(a.res) /\ ~skipCache /\ fault = "set"
       THEN Caught(a.st, s, "set")
       ELSE FCreate(b, s, data, ctx, uuid, skipCache, TRUE)

FReadFaulty(b, s, options, ctx, useCache, fault) ==
  LET cached == CacheGet(s.rd, QueryKey(options, ctx), ctx)
      a == AdapterRead(b, s.st, options, ctx)
  IN IF useCache /\ fault = "get"
       THEN Caught(s.st, s, "get")
       ELSE IF ~(useCache /\ cached.shape # "null")
               /\ Truthy(a.res) /\ useCache /\ fault = "set"
         THEN Caught(a.st, s, "set")
         ELSE FRead(b, s, options, ctx, useCache, TRUE)

FGetByIdFaulty(b, s, id, ctx, useCache, fault) ==
  LET cached == CacheGet(s.rd, IdKey(id), ctx)
      a == AdapterRead(b, s.st,
                       [filter |-> << <<"id", id>> >>, limit |-> 1, offset |-> 0],
                       ctx)
      found == Truthy(a.res) /\ a.res.rows # <<>>
  IN IF useCache /\ fault = "get"
       THEN Caught(s.st, s, "get")
       ELSE IF ~(useCache /\ cached.shape # "null")
               /\ found /\ useCache /\ fault = "set"
         THEN Caught(a.st, s, "set")
         ELSE FGetById(b, s, id, ctx, useCache, TRUE)

FUpdateFaulty(b, s, id, updates, ctx, skipCache, invalidateCache, fault) ==
  LET a == AdapterUpdate(b, s.st, id, updates, ctx)
  IN IF Truthy(a.res) /\ ~skipCache /\ fault = "set"
       THEN Caught(a.st, s, "set")
       ELSE FUpdate(b, s, id, updates, ctx, skipCache, invalidateCache, TRUE)

FDeleteFaulty(b, s, id, ctx, invalidateCache, fault) ==
  LET a == AdapterDelete(b, s.st, id, ctx)
  IN IF a.res.kind = "ok" /\ a.res.shape = "undefined" /\ fault = "delete"
       THEN Caught(a.st, s, "delete")
       ELSE FDelete(b, s, id, ctx, invalidateCache, TRUE)

\* the record of a call made while the cache may fail: ref is the result of
\* the same call on a facade that has no cache provider
FaultyCall(op, t, id, options, f, g) ==
  Call("faulty", op, t, id, options, f.res, g.res)

\* the call f was left at the cache command that failed
CacheFailed(f, fault) == f.res = catchError(CacheError(fault))

Faulty(f, fault) ==
  /\ fault # "none" => faults < MaxFaults
  /\ faults' = IF CacheFailed(f, fault) THEN faults + 1 ELSE faults

CreateFaulty(t, data, skipCache, fault) ==
  /\ issued < MaxRecords
  /\ Len(audit) < MaxAudit
  /\ LET f == FCreateFaulty(backend, Facade, data, t, Fresh(1)[1], skipCache, fault)
         g == FCreate(backend, NoCache, data, t, Fresh(1)[1], skipCache, FALSE)
     IN /\ Apply(f, FaultyCall("create", t, UNDEF, NoOptions, f, g))
        /\ Faulty(f, fault)
  /\ issued' = issued + 1
  /\ UNCHANGED <<backend, migVars, poolVars, rawVars, isoVars, stats, events>>

ReadFaulty(t, options, useCache, fault) ==
  /\ LET f == FReadFaulty(backend, Facade, options, t, useCache, fault)
         g == FRead(backend, NoCache, options, t, useCache, FALSE)
     IN /\ Apply(f, FaultyCall("read", t, UNDEF, options, f, g))
        /\ Faulty(f, fault)
  /\ UNCHANGED <<backend, issued, migVars, poolVars, rawVars, isoVars, stats, events>>

GetByIdFaulty(t, id, useCache, fault) ==
  /\ LET f == FGetByIdFaulty(backend, Facade, id, t, useCache, fault)
         g == FGetById(backend, NoCache, id, t, useCache, FALSE)
     IN /\ Apply(f, FaultyCall("getById", t, id, NoOptions, f, g))
        /\ Faulty(f, fault)
  /\ UNCHANGED <<backend, issued, migVars, poolVars, rawVars, isoVars, stats, events>>

UpdateFaulty(t, id, updates, skipCache, invalidateCache, fault) ==
  /\ Len(audit) < MaxAudit
  /\ LET f == FUpdateFaulty(backend, Facade, id, updates, t, skipCache,
                            invalidateCache, fault)
         g == FUpdate(backend, NoCache, id, updates, t, skipCache, invalidateCache, FALSE)
     IN /\ Apply(f, FaultyCall("update", t, id, NoOptions, f, g))
        /\ Faulty(f, fault)
  /\ UNCHANGED <<backend, issued, migVars, poolVars, rawVars, isoVars, stats, events>>

DeleteFaulty(t, id, invalidateCache, fault) ==
  /\ Len(audit) < MaxAudit
  /\ LET f == FDeleteFaulty(backend, Facade, id, t, invalidateCache, fault)
         g == FDelete(backend, NoCache, id, t, invalidateCache, FALSE)
     IN /\ Apply(f, FaultyCall("delete", t, id, NoOptions, f, g))
        /\ Faulty(f, fault)
  /\ UNCHANGED <<backend, issued, migVars, poolVars, rawVars, isoVars, stats, events>>

FaultyNext ==
  \/ \E t \in FacadeTenants, data \in FacadePayloads, skipCache \in BOOLEAN,
        fault \in CacheFaults :
       CreateFaulty(t, data, skipCache, fault)
  \/ \E t \in FacadeTenants, options \in {NoOptions}, useCache \in BOOLEAN,
        fault \in CacheFaults :
       ReadFaulty(t, options, useCache, fault)
  \/ \E t \in FacadeTenants, id \in Uuids, useCache \in BOOLEAN, fault \in CacheFaults :
       GetByIdFaulty(t, id, useCache, fault)
  \/ \E t \in FacadeTenants, id \in Uuids, updates \in FacadePayloads,
        skipCache \in BOOLEAN, invalidateCache \in {FALSE}, fault \in CacheFaults :
       UpdateFaulty(t, id, updates, skipCache, invalidateCache, fault)
  \/ \E t \in FacadeTenants, id \in Uuids, invalidateCache \in {FALSE},
        fault \in CacheFaults :
       DeleteFaulty(t, id, invalidateCache, fault)

FaultySpec == Init /\ [][FaultyNext]_vars

(***************************************************************************)
(* Calls made directly on the cache (RedisCacheAdapter), with logical keys *)
(* spelled out character by character.                                     *)
(***************************************************************************)
\* most entries the keyspace holds in a run
MaxEntries == 2
\* largest value a counter is incremented to
MaxCount == 2

CacheKeyChars == {"b", ":"}
\* logical keys begin with a name, as the keys the facade builds do
CacheKeys ==
  {k \in UNION {[1..n -> CacheKeyChars] : n \in 1..MaxKeyLen} : k[1] # ":"}
\* the values passed to set and mset: an empty list of records
CacheValues == {RowsValue(<<>>)}
\* ttlSeconds: absent (0), one minute, or a negative number
TtlArgs == {0, 60, -1}
\* ttlSeconds of the mset calls
MsetTtlArgs == {0, 60}
\* the keyValues objects passed to mset: at most two entries
KeyValues ==
  {<<>>} \cup {<< <<k, v>> >> : k \in CacheKeys, v \in CacheValues}
  \cup {<< <<ks[1], v>>, <<ks[2], v>> >> :
          ks \in {x \in CacheKeys \X CacheKeys : x[1] # x[2]}, v \in CacheValues}
KeyLists == {<<>>} \cup {<<k>> : k \in CacheKeys}
            \cup {<<k1, k2>> : k1 \in CacheKeys, k2 \in CacheKeys}

\* the record of a cache call: the values it returned (get, mget,
\* increment), the flag it returned (exists) and how many keys it removed
CacheCall(op, tenant, keys, vals, flag, removed) ==
  [layer |-> "cache", op |-> op, tenant |-> tenant, keys |-> keys,
   vals |-> vals, flag |-> flag, removed |-> removed]

\* most lookups (get, and the keys of mget) counted in a run
MaxLookups == 2

\* updateHitRate: hits / total, 0 when there was no lookup
updateHitRate(st) ==
  LET total == st.hits + st.misses
  IN [st EXCEPT !.hitRate = IF total > 0 THEN <<st.hits, total>> ELSE <<0, 1>>]

\* the counting of get: a miss is counted and the method returns; a hit is
\* counted and the hit rate is updated
StatsGet(st, value) ==
  IF value.shape = "null"
    THEN [st EXCEPT !.misses = @ + 1]
    ELSE updateHitRate([st EXCEPT !.hits = @ + 1])

\* the counting of mget: every value is counted, then finally updateHitRate
RECURSIVE CountAll(_, _)
CountAll(st, values) ==
  IF values = <<>> THEN st
  ELSE CountAll(IF Head(values).shape = "null"
                  THEN [st EXCEPT !.misses = @ + 1]
                  ELSE [st EXCEPT !.hits = @ + 1],
                Tail(values))
StatsMget(st, values) == updateHitRate(CountAll(st, values))

CacheInit == Init /\ backend = [type |-> "supabase", constThrows |-> FALSE]

Fits(rd) == Cardinality(DOMAIN rd) <= MaxEntries

CSet(t, key, value, ttlSeconds) ==
  /\ Fits(CacheSet(redis, key, value, t, ttlSeconds))
  /\ redis' = CacheSet(redis, key, value, t, ttlSeconds)
  /\ last' = CacheCall("set", t, <<key>>, <<>>, FALSE, 0)
  /\ UNCHANGED <<backend, store, audit, issued, migVars, auxVars, stats>>

CGet(t, key) ==
  /\ stats.hits + stats.misses < MaxLookups
  /\ last' = CacheCall("get", t, <<key>>, <<CacheGet(redis, key, t)>>, FALSE, 0)
  /\ stats' = StatsGet(stats, CacheGet(redis, key, t))
  /\ UNCHANGED <<backend, store, redis, audit, issued, migVars, auxVars>>

CDelete(t, key) ==
  /\ redis' = CacheDelete(redis, key, t)
  /\ last' = CacheCall("delete", t, <<key>>, <<>>, FALSE,
                       Cardinality(DOMAIN redis) - Cardinality(DOMAIN redis'))
  /\ UNCHANGED <<backend, store, audit, issued, migVars, auxVars, stats>>

CExists(t, key) ==
  /\ last' = CacheCall("exists", t, <<key>>, <<>>, CacheExists(redis, key, t), 0)
  /\ UNCHANGED <<backend, store, redis, audit, issued, migVars, auxVars, stats>>

CIncrement(t, key) ==
  LET r == CacheIncrement(redis, key, t, 1) IN
    /\ Fits(r.rd)
    /\ r.val.num <= MaxCount
    /\ redis' = r.rd
    /\ last' = CacheCall("increment", t, <<key>>, <<r.val>>, r.ok, 0)
    /\ UNCHANGED <<backend, store, audit, issued, migVars, auxVars, stats>>

CMset(t, keyValues, ttlSeconds) ==
  /\ Fits(CacheMset(redis, keyValues, t, ttlSeconds))
  /\ redis' = CacheMset(redis, keyValues, t, ttlSeconds)
  /\ last' = CacheCall("mset", t, MapSeq(keyValues, LAMBDA e : e[1]), <<>>, FALSE, 0)
  /\ UNCHANGED <<backend, store, audit, issued, migVars, auxVars, stats>>

CMget(t, keys) ==
  /\ stats.hits + stats.misses + Len(keys) <= MaxLookups
  /\ last' = CacheCall("mget", t, keys, CacheMget(redis, keys, t), FALSE, 0)
  /\ stats' = StatsMget(stats, CacheMget(redis, keys, t))
  /\ UNCHANGED <<backend, store, redis, audit, issued, migVars, auxVars>>

CClearTenant(t) ==
  /\ redis' = CacheClearTenant(redis, t)
  /\ last' = CacheCall("clearTenant", t, <<>>, <<>>, FALSE,
                       Cardinality(DOMAIN redis) - Cardinality(DOMAIN redis'))
  /\ UNCHANGED <<backend, store, audit, issued, migVars, auxVars, stats>>

CacheNext ==
  \/ \E t \in CacheTenants, key \in CacheKeys, value \in CacheValues,
        ttlSeconds \in TtlArgs : CSet(t, key, value, ttlSeconds)
  \/ \E t \in CacheTenants, key \in CacheKeys : CGet(t, key)
  \/ \E t \in CacheTenants, key \in CacheKeys : CDelete(t, key)
  \/ \E t \in CacheTenants, key \in CacheKeys : CExists(t, key)
  \/ \E t \in CacheTenants, key \in CacheKeys : CIncrement(t, key)
  \/ \E t \in CacheTenants, keyValues \in KeyValues, ttlSeconds \in MsetTtlArgs :
       CMset(t, keyValues, ttlSeconds)
  \/ \E t \in CacheTenants, keys \in KeyLists : CMget(t, keys)
  \/ \E t \in CacheTenants : CClearTenant(t)

CacheSpec == CacheInit /\ [][CacheNext]_vars

(***************************************************************************)
(* MigrationManager calls.  runMigrations and rollbackTo are async: a call *)
(* runs up to its next await in one step, and the steps of different calls *)
(* and the lock timers interleave.                                         *)
(***************************************************************************)
Runs == 1..MaxRuns

\* the orders in which distinct migrations can be listed
Orders ==
  {s \in UNION {[1..n -> 1..MaxMigs] : n \in 0..MaxMigs} :
     \A i, j \in 1..Len(s) : s[i] = s[j] => i = j}
ValidLists == {[i \in 1..Len(s) |-> Migration(s[i])] : s \in Orders}
MigFields == {"id", "name", "up", "down"}
\* a list with one required field of one migration left empty
InvalidLists ==
  UNION {{[l EXCEPT ![i] = [l[i] EXCEPT ![f] = ""]] : i \in 1..Len(l), f \in MigFields} :
           l \in {[i \in 1..MaxMigs |-> Migration(i)]}}
MigLists == ValidLists \cup InvalidLists
Targets == 0..MaxMigs

InProgress(run) == run.pc \in {"locked", "loop"}
AlreadyInProgress == SDKError("Migration is already in progress", DATABASE_ERROR, 409)
ResultOf(res) == [id |-> res.id, status |-> res.status, ran |-> res.ran, ok |-> res.ok]

MigInit ==
  /\ Init
  /\ backend.constThrows = FALSE

dataVars == <<backend, store, redis, audit, issued, last>>

\* acquireLock without the setTimeout: the flag is set and no timer is
\* scheduled
StartCallWithoutTimer(r, kind, list, target) ==
  /\ ~InProgress(runs[r])
  /\ \A q \in 1..(r - 1) : InProgress(runs[q])
  /\ IF isLocked
     THEN /\ finished' = Finished(kind, <<>>, AlreadyInProgress, FALSE, FirstInvalid(list) = "")
          /\ UNCHANGED <<isLocked, timers, runs>>
     ELSE /\ timers < MaxTimers
          /\ isLocked' = TRUE
          /\ timers' = timers
          /\ runs' = [runs EXCEPT ![r] = RunRec(kind, "locked", list, target, <<>>, <<>>)]
          /\ UNCHANGED finished
  /\ UNCHANGED <<dataVars, auxVars, stats, migrations>>

\* the synchronous head of runMigrations / rollbackTo: the isLocked check,
\* then acquireLock, which sets the flag and schedules the timer.  A new call
\* is numbered with the lowest number no call in progress has
StartCall(r, kind, list, target) ==
  /\ ~InProgress(runs[r])
  /\ \A q \in 1..(r - 1) : InProgress(runs[q])
  /\ IF isLocked
     THEN /\ finished' = Finished(kind, <<>>, AlreadyInProgress, FALSE, FirstInvalid(list) = "")
          /\ UNCHANGED <<isLocked, timers, runs>>
     ELSE /\ timers < MaxTimers
          /\ isLocked' = TRUE
          /\ timers' = timers + 1
          /\ runs' = [runs EXCEPT ![r] = RunRec(kind, "locked", list, target, <<>>, <<>>)]
          /\ UNCHANGED finished
  /\ UNCHANGED <<dataVars, auxVars, stats, migrations>>

\* runMigrations with the isLocked check inside its try block: the finally
\* clause of a rejected call releases the lock
RunMigrationsCheckInTry(r, list) ==
  /\ list \in MigLists
  /\ IF isLocked
     THEN /\ ~InProgress(runs[r])
          /\ \A q \in 1..(r - 1) : InProgress(runs[q])
          /\ finished' = Finished("run", <<>>, AlreadyInProgress, FALSE, FirstInvalid(list) = "")
          /\ isLocked' = FALSE
          /\ UNCHANGED <<timers, runs, dataVars, auxVars, stats, migrations>>
     ELSE StartCall(r, "run", list, 0)

RunMigrations(r, list) ==
  /\ list \in MigLists
  /\ StartCall(r, "run", list, 0)
RollbackTo(r, target) ==
  /\ target \in Targets
  /\ StartCall(r, "rollback", <<>>, target)

\* releaseLock() after the try block and not in a finally clause: a call
\* that throws keeps the lock
LeaveWithoutFinally(r, results, out) ==
  /\ isLocked' = IF out.kind = "throw" THEN isLocked ELSE FALSE
  /\ runs' = [runs EXCEPT ![r] = IdleRun]
  /\ finished' = Finished(runs[r].kind, results, out, TRUE, FirstInvalid(runs[r].list) = "")

\* the call leaves its try block: finally releaseLock()
Leave(r, results, out) ==
  /\ isLocked' = FALSE
  /\ runs' = [runs EXCEPT ![r] = IdleRun]
  /\ finished' = Finished(runs[r].kind, results, out, TRUE, FirstInvalid(runs[r].list) = "")

\* getPendingMigrations / getMigrationsToRollback.  answered: the database
\* answers the SELECT; if it does not, the Supabase adapter throws and the
\* others return an error result
Prepare(r, answered) ==
  LET run == runs[r]
      invalid == IF run.kind = "run" THEN FirstInvalid(run.list) ELSE ""
      todo == IF run.kind = "run"
              THEN MapSeq(getPendingMigrations(backend, migrations, run.list, answered),
                          LAMBDA m : m.id)
              ELSE RollbackOrder(backend, migrations, run.target, answered)
  IN  /\ run.pc = "locked"
      /\ IF QueryThrows(backend) /\ ~answered
         THEN Leave(r, <<>>, DataError("Query execution failed", INVALID_QUERY, 400))
         ELSE IF invalid # ""
         THEN Leave(r, <<>>, SDKError(invalid, CONFIGURATION_ERROR, 400))
         ELSE IF todo = <<>>
         THEN Leave(r, <<>>, OkUndefined)
         ELSE /\ runs' = [runs EXCEPT ![r] =
                            RunRec(run.kind, "loop", <<>>, 0, todo, <<>>)]
              /\ UNCHANGED <<isLocked, finished>>
      /\ UNCHANGED <<dataVars, auxVars, stats, migrations, timers>>

\* one iteration of the for loop: runSingleMigration / rollbackSingleMigration
\* on the next migration, whose script succeeds in the database iff ok
Step(r, ok) ==
  LET run == runs[r]
      id == Head(run.todo)
      res == IF run.kind = "run"
             THEN runSingleMigration(backend, migrations, id, ok)
             ELSE rollbackSingleMigration(backend, migrations, id, ok)
      results == Append(run.results, ResultOf(res))
  IN  /\ run.pc = "loop"
      /\ migrations' = res.tbl
      /\ IF res.status = FAILED \/ Tail(run.todo) = <<>>
         THEN Leave(r, results, OkUndefined)
         ELSE /\ runs' = [runs EXCEPT ![r].todo = Tail(run.todo), ![r].results = results]
              /\ UNCHANGED <<isLocked, finished>>
      /\ UNCHANGED <<dataVars, auxVars, stats, timers>>

\* the setTimeout callback of acquireLock
TimerFires ==
  /\ timers > 0
  /\ timers' = timers - 1
  /\ isLocked' = FALSE
  /\ UNCHANGED <<dataVars, auxVars, stats, migrations, runs, finished>>

MigrationNext ==
  \/ \E r \in Runs, list \in MigLists : RunMigrations(r, list)
  \/ \E r \in Runs, target \in Targets : RollbackTo(r, target)
  \/ \E r \in Runs, answered \in BOOLEAN : Prepare(r, answered)
  \/ \E r \in Runs, ok \in BOOLEAN : Step(r, ok)
  \/ TimerFires

MigrationSpec == MigInit /\ [][MigrationNext]_vars

\* runMigrations of the first migration alone, by callers that may stop
\* taking steps at any point (a runner that crashed keeps its call in
\* progress for ever); the timers of setTimeout do fire
LockLists == {<<Migration(1)>>}
LockNext ==
  \/ \E r \in Runs, list \in LockLists : RunMigrations(r, list)
  \/ \E r \in Runs, answered \in BOOLEAN : Prepare(r, answered)
  \/ \E r \in Runs, ok \in BOOLEAN : Step(r, ok)
  \/ TimerFires

LockSpec == MigInit /\ [][LockNext]_vars /\ WF_vars(TimerFires)

(***************************************************************************)
(* Pooled connections and transaction handles of the adapters.  A          *)
(* connection of the PostgreSQL / MySQL pool and a MongoDB client session  *)
(* are numbered; the Supabase client has neither.                          *)
(***************************************************************************)
Conns == 1..MaxConns

Pooled(b) == b.type \in {"postgresql", "mysql"}

\* pool.connect() / pool.getConnection() / client.startSession()
Acquire(p) == CHOOSE c \in Conns \ p.inUse : \A d \in Conns \ p.inUse : c <= d
CheckOut(p, c) == [p EXCEPT !.inUse = @ \cup {c}]
\* client.release() / connection.release() / session.endSession()
Release(p, c) == [inUse |-> p.inUse \ {c}, txns |-> p.txns \ {c}]

OkBoolean(v) == [OkNull EXCEPT !.shape = IF v THEN "true" ELSE "false"]
\* the error of the database driver, thrown as it is
DriverError(m) == Thrown("Error", "", 0, m)

\* testConnection: ok iff the SELECT 1 / ping / select succeeds
testConnection(b, p, ok) ==
  IF Pooled(b)
    THEN LET c == Acquire(p)
         IN IF ok THEN [p |-> Release(CheckOut(p, c), c), res |-> OkBoolean(TRUE)]
                  ELSE [p |-> CheckOut(p, c), res |-> OkBoolean(FALSE)]
    ELSE [p |-> p, res |-> OkBoolean(ok)]

\* beginTransaction: ok iff BEGIN succeeds
beginTransaction(b, p, ok) ==
  CASE Pooled(b) ->
         LET c == Acquire(p)
         IN IF ok THEN [p |-> [inUse |-> p.inUse \cup {c}, txns |-> p.txns \cup {c}],
                        res |-> OkUndefined]
                  ELSE [p |-> CheckOut(p, c), res |-> DriverError("BEGIN failed")]
    [] b.type = "mongodb" ->
         LET c == Acquire(p)
         IN [p |-> [inUse |-> p.inUse \cup {c}, txns |-> p.txns \cup {c}],
             res |-> OkUndefined]
    [] OTHER ->
         [p |-> p,
          res |-> DataError("Explicit transactions not supported in Supabase adapter",
                            DATABASE_ERROR, 501)]

\* commit with the release after the statement and not in a finally clause
commitWithoutFinally(p, c, ok) ==
  IF ok THEN [p |-> Release(p, c), res |-> OkUndefined]
        ELSE [p |-> p, res |-> DriverError("COMMIT failed")]

\* ITransaction.commit: try { COMMIT } finally { release }
commit(p, c, ok) ==
  [p |-> Release(p, c),
   res |-> IF ok THEN OkUndefined ELSE DriverError("COMMIT failed")]

\* ITransaction.rollback: try { ROLLBACK } finally { release }
rollback(p, c, ok) ==
  [p |-> Release(p, c),
   res |-> IF ok THEN OkUndefined ELSE DriverError("ROLLBACK failed")]

\* adapter.runMigrations: the connection is acquired before the try block
\* and released in its finally clause; ok iff every statement succeeds
adapterRunMigrations(b, p, ok) ==
  LET c == Acquire(p)
      held == IF b.type = "supabase" THEN p ELSE CheckOut(p, c)
  IN [p |-> IF b.type = "supabase" THEN held ELSE Release(held, c),
      res |-> IF ok THEN OkUndefined
              ELSE DataError("Failed to run migrations", DATABASE_ERROR, 500)]

PoolState == [inUse |-> inUse, txns |-> txns]
PoolCall(op, c, res) == [Call("pool", op, UNDEF, UNDEF, NoOptions, res, res) EXCEPT !.id = c]
PoolApply(r, call) ==
  /\ inUse' = r.p.inUse
  /\ txns' = r.p.txns
  /\ last' = call
  /\ UNCHANGED <<backend, store, redis, audit, issued, migVars, faults, rawVars, isoVars, stats, events>>
\* a free connection: pool.connect() does not return before there is one
Free == Conns \ inUse # {}

TestConnection(ok) ==
  /\ Free
  /\ PoolApply(testConnection(backend, PoolState, ok), 
               PoolCall("testConnection", 0, testConnection(backend, PoolState, ok).res))

BeginTransaction(ok) ==
  /\ Free
  /\ PoolApply(beginTransaction(backend, PoolState, ok),
               PoolCall("beginTransaction", 0, beginTransaction(backend, PoolState, ok).res))

Commit(c, ok) ==
  /\ c \in txns
  /\ PoolApply(commit(PoolState, c, ok), PoolCall("commit", c, commit(PoolState, c, ok).res))

Rollback(c, ok) ==
  /\ c \in txns
  /\ PoolApply(rollback(PoolState, c, ok),
               PoolCall("rollback", c, rollback(PoolState, c, ok).res))

AdapterRunMigrations(ok) ==
  /\ Free
  /\ PoolApply(adapterRunMigrations(backend, PoolState, ok),
               PoolCall("runMigrations", 0, adapterRunMigrations(backend, PoolState, ok).res))

PoolNext ==
  \/ \E ok \in BOOLEAN : TestConnection(ok)
  \/ \E ok \in BOOLEAN : BeginTransaction(ok)
  \/ \E c \in Conns, ok \in BOOLEAN : Commit(c, ok)
  \/ \E c \in Conns, ok \in BOOLEAN : Rollback(c, ok)
  \/ \E ok \in BOOLEAN : AdapterRunMigrations(ok)

PoolSpec == Init /\ [][PoolNext]_vars

(***************************************************************************)
(* DataManagerV2.query: the raw query of concurrent callers on one         *)
(* adapter.  Each statement handed to the pool runs on a connection the    *)
(* pool picks.                                                             *)
(***************************************************************************)
Callers == 1..MaxCallers

\* adapter.setTenantContext(tenantId), its statement run on connection c:
\* set_config(..., false) / SET @current_tenant_id / rpc set_tenant_context
\* set the variable of that session; the MongoDB adapter only logs
setTenantContext(b, ses, c, tenantId) ==
  IF b.type = "mongodb" THEN ses ELSE [ses EXCEPT ![c] = tenantId]

\* adapter.query(sql, params), run on connection c: the tenant context the
\* statement executes under
query(ses, c) == ses[c]

RawCall(op, t, ran, res) ==
  [Call("raw", op, t, UNDEF, NoOptions, res, res) EXCEPT !.id = ran]

\* query(sql, params, context) up to its first await has returned: the
\* statement of setTenantContext ran on connection c and succeeded iff ok
SetTenantContext(p, t, c, ok) ==
  /\ calls[p].pc = "idle"
  /\ IF ok
       THEN /\ session' = setTenantContext(backend, session, c, t)
            /\ calls' = [calls EXCEPT ![p] = [pc |-> "set", tenant |-> t]]
            /\ UNCHANGED last
       ELSE /\ last' = RawCall("setTenantContext", t, UNDEF,
                               DataError("Failed to set tenant context",
                                         DATABASE_ERROR, 500))
            /\ UNCHANGED <<session, calls>>
  /\ UNCHANGED <<backend, store, redis, audit, issued, migVars, faults, poolVars, isoVars, stats, events>>

\* the rest of query(sql, params, context): adapter.query on connection c
Query(p, c) ==
  /\ calls[p].pc = "set"
  /\ last' = RawCall("query", calls[p].tenant, query(session, c), OkRows(<<>>, -1))
  /\ calls' = [calls EXCEPT ![p] = IdleCaller]
  /\ UNCHANGED <<backend, store, redis, audit, issued, migVars, faults, poolVars, session, isoVars, stats, events>>

RawNext ==
  \/ \E p \in Callers, t \in Tenants, c \in Conns, ok \in BOOLEAN :
       SetTenantContext(p, t, c, ok)
  \/ \E p \in Callers, c \in Conns : Query(p, c)

RawSpec == Init /\ [][RawNext]_vars

(***************************************************************************)
(* setupTenantIsolation: the statements of one call run one after the      *)
(* other; the database objects they leave are pairs <<kind, table>>.       *)
(***************************************************************************)
\* most calls made in sequence for one tenant
MaxSetups == 2

\* const tables = ['tenants', 'users', 'tenant_users']
IsolatedTables == <<"tenants", "users", "tenant_users">>

\* the statements per table, in the order the loop body issues them; the
\* Supabase adapter (with a service client) only logs
TableStatements(b) ==
  CASE b.type = "postgresql" -> <<"DROP POLICY IF EXISTS", "CREATE POLICY", "ENABLE RLS">>
    [] b.type = "mysql" -> <<"DROP VIEW IF EXISTS", "CREATE VIEW">>
    [] b.type = "mongodb" -> <<"createIndex tenant_id _id", "createIndex tenant_id">>
    [] OTHER -> <<>>

\* the n-th statement of a call: [stmt, table]
Statement(b, n) ==
  LET k == Len(TableStatements(b))
  IN [stmt |-> TableStatements(b)[((n - 1) % k) + 1],
      table |-> IsolatedTables[((n - 1) \div k) + 1]]
StatementCount(b) == Len(TableStatements(b)) * Len(IsolatedTables)

\* what the database does with a statement.  CREATE POLICY fails when the
\* policy exists; MySQL rejects a CREATE VIEW whose SELECT refers to a user
\* variable (@current_tenant_id); createIndex of an index that exists with
\* the same keys changes nothing
Execute(iso, s) ==
  CASE s.stmt = "DROP POLICY IF EXISTS" ->
         [iso |-> iso \ {<<"policy", s.table>>}, ok |-> TRUE]
    [] s.stmt = "CREATE POLICY" ->
         IF <<"policy", s.table>> \in iso
           THEN [iso |-> iso, ok |-> FALSE]
           ELSE [iso |-> iso \cup {<<"policy", s.table>>}, ok |-> TRUE]
    [] s.stmt = "ENABLE RLS" ->
         [iso |-> iso \cup {<<"rls", s.table>>}, ok |-> TRUE]
    [] s.stmt = "DROP VIEW IF EXISTS" ->
         [iso |-> iso \ {<<"view", s.table>>}, ok |-> TRUE]
    [] s.stmt = "CREATE VIEW" ->
         [iso |-> iso, ok |-> FALSE]
    [] OTHER ->
         [iso |-> iso \cup {<<s.stmt, s.table>>}, ok |-> TRUE]

IsoCall(t, res) == Call("isolation", "setupTenantIsolation", t, UNDEF, NoOptions, res, res)

\* the call ends with result res and the objects iso in the database
SetupEnds(t, iso, res, done) ==
  /\ setup' = [pc |-> 0, tenant |-> t, done |-> done + 1, after |-> iso]
  /\ last' = IsoCall(t, res)

\* setupTenantIsolation(tenantId) is called; a call for another tenant than
\* the one before starts a new sequence
SetupTenantIsolation(t) ==
  LET done == IF t = setup.tenant THEN setup.done ELSE 0
  IN  /\ setup.pc = 0
      /\ done < MaxSetups
      /\ IF StatementCount(backend) = 0
           THEN SetupEnds(t, isolation, OkUndefined, done)
           ELSE /\ setup' = [pc |-> 1, tenant |-> t, done |-> done,
                             after |-> IF t = setup.tenant THEN setup.after ELSE {}]
                /\ UNCHANGED last
      /\ UNCHANGED <<backend, store, redis, audit, issued, migVars, faults, poolVars,
                     rawVars, isolation, stats, events>>

\* the next awaited statement of the call in progress; a statement that
\* fails is caught and thrown on as a DataError
SetupStep ==
  LET e == Execute(isolation, Statement(backend, setup.pc))
  IN  /\ setup.pc > 0
      /\ isolation' = e.iso
      /\ IF ~e.ok
           THEN SetupEnds(setup.tenant, e.iso,
                          DataError("Failed to setup tenant isolation",
                                    DATABASE_ERROR, 500), setup.done)
           ELSE IF setup.pc = StatementCount(backend)
             THEN SetupEnds(setup.tenant, e.iso, OkUndefined, setup.done)
             ELSE /\ setup' = [setup EXCEPT !.pc = @ + 1]
                  /\ UNCHANGED last
      /\ UNCHANGED <<backend, store, redis, audit, issued, migVars, faults, poolVars,
                     rawVars, stats, events>>

IsoNext ==
  \/ \E t \in Tenants : SetupTenantIsolation(t)
  \/ SetupStep

IsoSpec == Init /\ [][IsoNext]_vars

(***************************************************************************)
(* DatabaseAdapterFactory.  A config field is absent (UNDEF), the empty    *)
(* string or a value.                                                      *)
(***************************************************************************)
ConfigTypes == {UNDEF, "supabase", "postgresql", "mysql", "sqlite", "mongodb"}
ConfigValues == {UNDEF, "", "v"}
DatabaseConfig ==
  [type : ConfigTypes, host : ConfigValues, database : ConfigValues,
   username : ConfigValues, password : ConfigValues,
   supabaseUrl : ConfigValues, supabaseAnonKey : ConfigValues]

\* !value
Not(value) == value \in {UNDEF, ""}

getSupportedTypes == {"supabase", "postgresql", "mysql"}

\* the adapter object the constructor returns
NewAdapter(type) == [OkNull EXCEPT !.shape = type]
Passed == OkUndefined

validateSupabaseConfig(config) ==
  IF Not(config.supabaseUrl)
    THEN SDKError("Supabase URL is required", CONFIGURATION_ERROR, 400)
  ELSE IF Not(config.supabaseAnonKey)
    THEN SDKError("Supabase anonymous key is required", CONFIGURATION_ERROR, 400)
  ELSE Passed

\* validateSQLConfig looking at the fields in another order
validateSQLConfigNameFirst(config) ==
  IF Not(config.database)
    THEN SDKError("Database name is required", CONFIGURATION_ERROR, 400)
  ELSE IF Not(config.host)
    THEN SDKError("Database host is required", CONFIGURATION_ERROR, 400)
  ELSE IF Not(config.username)
    THEN SDKError("Database username is required", CONFIGURATION_ERROR, 400)
  ELSE IF Not(config.password)
    THEN SDKError("Database password is required", CONFIGURATION_ERROR, 400)
  ELSE Passed

validateSQLConfig(config) ==
  IF Not(config.host)
    THEN SDKError("Database host is required", CONFIGURATION_ERROR, 400)
  ELSE IF Not(config.database)
    THEN SDKError("Database name is required", CONFIGURATION_ERROR, 400)
  ELSE IF Not(config.username)
    THEN SDKError("Database username is required", CONFIGURATION_ERROR, 400)
  ELSE IF Not(config.password)
    THEN SDKError("Database password is required", CONFIGURATION_ERROR, 400)
  ELSE Passed

validateConfig(config) ==
  IF Not(config.type)
    THEN SDKError("Database type is required", CONFIGURATION_ERROR, 400)
  ELSE IF config.type \notin getSupportedTypes
    THEN SDKError("Unsupported database type", CONFIGURATION_ERROR, 400)
  ELSE IF config.type = "supabase" THEN validateSupabaseConfig(config)
  ELSE validateSQLConfig(config)

\* create: the constructors check their own parameters
create(config) ==
  CASE config.type = "supabase" ->
         IF Not(config.supabaseUrl) \/ Not(config.supabaseAnonKey)
           THEN DataError("Supabase URL and anonymous key are required",
                          CONFIGURATION_ERROR, 400)
           ELSE NewAdapter(config.type)
    [] config.type \in {"postgresql", "mysql"} ->
         IF Not(config.host) \/ Not(config.database) \/ Not(config.username)
              \/ Not(config.password)
           THEN DataError("connection parameters are required", CONFIGURATION_ERROR, 400)
           ELSE NewAdapter(config.type)
    [] config.type = "sqlite" ->
         SDKError("SQLite adapter not yet implemented", CONFIGURATION_ERROR, 500)
    [] OTHER -> SDKError("Unsupported database type", CONFIGURATION_ERROR, 500)

createWithValidation(config) ==
  IF validateConfig(config).kind = "throw" THEN validateConfig(config)
  ELSE create(config)

\* the factory is static and keeps nothing between calls: a run makes one
CreateWithValidation(config) ==
  /\ last = NoCall
  /\ last' = Call("factory", "createWithValidation", UNDEF, UNDEF, config,
                  createWithValidation(config), create(config))
  /\ UNCHANGED <<backend, store, redis, audit, issued, migVars, auxVars, stats>>

FactoryNext == \E config \in DatabaseConfig : CreateWithValidation(config)

\* no adapter has been constructed yet; the configured backend plays no part
FactoryInit == Init /\ backend = [type |-> "supabase", constThrows |-> FALSE]

FactorySpec == FactoryInit /\ [][FactoryNext]_vars

(***************************************************************************)
(* runMigrations of the PostgreSQL and MySQL adapters: the whole list in   *)
(* one database transaction.  migrations is the adapter's migrations table *)
(* (a row per executed id) and isolation holds, with the other schema      *)
(* objects, the change each executed forward script made.                  *)
(***************************************************************************)
\* what the forward script of a migration leaves in the database
Change(id) == <<"change", id>>
NoMigration == "none"

\* the work of a transaction: tbl and schema are what the session sees, ctbl
\* and cschema what is committed, inTx whether the transaction is open
TxWork(tbl, schema) ==
  [tbl |-> tbl, schema |-> schema, ctbl |-> tbl, cschema |-> schema,
   inTx |-> TRUE, thrown |-> FALSE]
\* a statement has run: in autocommit mode (no transaction open) it is
\* committed at once
Autocommit(w) == IF w.inTx THEN w ELSE [w EXCEPT !.ctbl = w.tbl, !.cschema = w.schema]
\* MySQL commits the open transaction before it runs a data definition
\* statement (CREATE, ALTER, DROP ...), and the session is back in
\* autocommit mode; PostgreSQL runs data definition inside the transaction
ImplicitCommit(b, w, isDdl) ==
  IF b.type = "mysql" /\ isDdl
    THEN [w EXCEPT !.ctbl = w.tbl, !.cschema = w.schema, !.inTx = FALSE]
    ELSE w

RECURSIVE MigrationLoop(_, _, _, _, _)
\* the loop of runMigrations: SELECT the id; if there is no row, execute
\* migration.up and INSERT the row.  failing is the migration whose forward
\* script the database rejects, ddl the migrations whose forward script is
\* data definition
MigrationLoop(b, w, list, failing, ddl) ==
  IF list = <<>> THEN w
  ELSE
    LET m == Head(list)
        c == ImplicitCommit(b, w, m.id \in ddl)
        up == Autocommit([c EXCEPT !.schema = @ \cup {Change(m.id)}])
        ins == Autocommit([up EXCEPT !.tbl[m.id] = COMPLETED])
    IN  IF w.tbl[m.id] # ABSENT THEN MigrationLoop(b, w, Tail(list), failing, ddl)
        ELSE IF m.id = failing THEN [c EXCEPT !.thrown = TRUE]
        ELSE MigrationLoop(b, ins, Tail(list), failing, ddl)

\* PostgreSQLAdapter.runMigrations / MySQLAdapter.runMigrations: BEGIN, the
\* loop, COMMIT; catch: ROLLBACK, which leaves what is committed, and throw
\* DataError (the driver's error if the ROLLBACK fails); finally release
transactionalRunMigrations(b, tbl, schema, list, failing, ddl, rollbackOk) ==
  LET w == MigrationLoop(b, TxWork(tbl, schema), list, failing, ddl)
  IN  IF w.thrown
        THEN [tbl |-> w.ctbl, schema |-> w.cschema,
              res |-> IF rollbackOk
                        THEN DataError("Failed to run migrations", DATABASE_ERROR, 500)
                        ELSE DriverError("ROLLBACK failed")]
        ELSE [tbl |-> w.tbl, schema |-> w.schema, res |-> OkUndefined]

TxCall(list, failing, res) ==
  [layer |-> "tx", op |-> "runMigrations", list |-> list, failing |-> failing, res |-> res]

TxRunMigrations(list, failing, ddl, rollbackOk) ==
  LET r == transactionalRunMigrations(backend, migrations, isolation, list, failing,
                                      ddl, rollbackOk)
  IN  /\ Free
      /\ migrations' = r.tbl
      /\ isolation' = r.schema
      /\ last' = TxCall(list, failing, r.res)
      /\ UNCHANGED <<backend, store, redis, audit, issued, isLocked, timers, runs,
                     finished, faults, poolVars, rawVars, setup, stats, events>>

TxNext ==
  \E list \in ValidLists, failing \in MigIds \cup {NoMigration}, ddl \in SUBSET MigIds,
     rollbackOk \in BOOLEAN :
    TxRunMigrations(list, failing, ddl, rollbackOk)

TxInit ==
  /\ Init
  /\ Pooled(backend)
  /\ backend.constThrows = FALSE

TxSpec == TxInit /\ [][TxNext]_vars

(***************************************************************************)
(* EventManager: the queue of emitted events and their delivery to the     *)
(* configured webhooks, with retries.  A delivery is one emitted event     *)
(* going to one destination: pc "fetch" while the POST is in flight,       *)
(* "timer" while the retry is scheduled, "done" when nothing is pending;   *)
(* current is the retry count read at the head of deliverToWebhook and     *)
(* attempts counts the POSTs made.                                         *)
(***************************************************************************)
\* events emitted in a run
MaxEmits == 2
\* largest configured retryAttempts
MaxRetryAttempts == 3
\* POSTs of one delivery that are followed
MaxPosts == 4
EventIds == {"e1", "e2"}
\* retryAttempts as configured (3 when the caller leaves it out); the
\* Work OS webhook is configured or not, the plain webhook always is
EventConfigs == [retryAttempts : 0..MaxRetryAttempts, workOs : BOOLEAN]
DestinationTypes(config) ==
  IF config.workOs THEN <<"webhook", "work-os">> ELSE <<"webhook">>

\* `${type}-${event.id}`
RetryKey(type, id) == <<type, "-", id>>
RetryKeys == {RetryKey(type, id) : type \in {"webhook", "work-os"}, id \in EventIds}
\* this.config.retryAttempts || 3
AttemptLimit(config) == IF config.retryAttempts # 0 THEN config.retryAttempts ELSE 3

Delivery(id, type) ==
  [id |-> id, type |-> type, pc |-> "new", current |-> 0, attempts |-> 0,
   delivered |-> FALSE]

\* the head of deliverToWebhook for delivery d, up to the fetch: the retry
\* count is read; at the limit the counter is deleted and the method
\* returns, else the POST is sent
deliverToWebhook(ev, d) ==
  LET dl == ev.deliveries[d]
      retryKey == RetryKey(dl.type, dl.id)
      currentRetries == ev.webhookRetries[retryKey]
  IN  IF currentRetries >= AttemptLimit(ev.config)
        THEN [ev EXCEPT !.webhookRetries[retryKey] = 0,
                        !.deliveries[d].pc = "done",
                        !.awaiting = @ \ {d}]
        ELSE [ev EXCEPT !.deliveries[d].pc = "fetch",
                        !.deliveries[d].current = currentRetries,
                        !.deliveries[d].attempts = @ + 1]

RECURSIVE DeliverAll(_, _)
DeliverAll(ev, ds) ==
  IF ds = {} THEN ev
  ELSE LET d == CHOOSE x \in ds : \A y \in ds : x <= y
       IN  DeliverAll(deliverToWebhook(ev, d), ds \ {d})

\* deliverEvent: deliverToWebhook for each configured destination, then the
\* wait for all of them to settle
deliverEvent(ev, id) ==
  LET types == DestinationTypes(ev.config)
      n == Len(ev.deliveries)
      new == (n + 1)..(n + Len(types))
      started == [ev EXCEPT !.deliveries = @ \o [i \in 1..Len(types) |-> Delivery(id, types[i])],
                            !.awaiting = new]
  IN  DeliverAll(started, new)

\* processEventQueue between two awaits: the next event is taken off the
\* queue and delivered, or the queue is empty and processing ends
processEventQueue(ev) ==
  IF ev.queue = <<>> THEN [ev EXCEPT !.isProcessing = FALSE]
  ELSE deliverEvent([ev EXCEPT !.isProcessing = TRUE, !.queue = Tail(@)], Head(ev.queue))

\* new EventManager(config)
NewEventManager(config) ==
  /\ events = NoEvents
  /\ events' = [constructed |-> TRUE, config |-> config, queue |-> <<>>,
                isProcessing |-> FALSE, webhookRetries |-> [k \in RetryKeys |-> 0],
                deliveries |-> <<>>, awaiting |-> {}, emitted |-> 0]
  /\ UNCHANGED <<dataVars, migVars, faults, poolVars, rawVars, isoVars, stats>>

\* emit(event): the event is queued, and processed at once if the queue is
\* not being processed
Emit(id) ==
  /\ events.constructed
  /\ events.emitted < MaxEmits
  /\ LET queued == [events EXCEPT !.queue = Append(@, id), !.emitted = @ + 1]
     IN  events' = IF events.isProcessing THEN queued ELSE processEventQueue(queued)
  /\ UNCHANGED <<dataVars, migVars, faults, poolVars, rawVars, isoVars, stats>>

\* the POST of delivery d is answered: response.ok deletes the counter, any
\* other answer or a network error sets it to currentRetries + 1 and
\* schedules the retry
FetchCompletes(d, ok) ==
  /\ events.constructed
  /\ d \in 1..Len(events.deliveries)
  /\ events.deliveries[d].pc = "fetch"
  /\ LET dl == events.deliveries[d]
         retryKey == RetryKey(dl.type, dl.id)
     IN  events' =
           IF ok
             THEN [events EXCEPT !.webhookRetries[retryKey] = 0,
                                 !.deliveries[d].pc = "done",
                                 !.deliveries[d].delivered = TRUE,
                                 !.awaiting = @ \ {d}]
             ELSE [events EXCEPT !.webhookRetries[retryKey] = dl.current + 1,
                                 !.deliveries[d].pc = "timer",
                                 !.awaiting = @ \ {d}]
  /\ UNCHANGED <<dataVars, migVars, faults, poolVars, rawVars, isoVars, stats>>

\* the setTimeout callback of a failed delivery: deliverToWebhook again
RetryFires(d) ==
  /\ events.constructed
  /\ d \in 1..Len(events.deliveries)
  /\ events.deliveries[d].pc = "timer"
  /\ events.deliveries[d].attempts < MaxPosts
  /\ events' = deliverToWebhook(events, d)
  /\ UNCHANGED <<dataVars, migVars, faults, poolVars, rawVars, isoVars, stats>>

\* Promise.allSettled of deliverEvent resolves: the loop of
\* processEventQueue goes on
QueueContinues ==
  /\ events.constructed
  /\ events.isProcessing
  /\ events.awaiting = {}
  /\ events' = processEventQueue(events)
  /\ UNCHANGED <<dataVars, migVars, faults, poolVars, rawVars, isoVars, stats>>

EventNext ==
  \/ \E config \in EventConfigs : NewEventManager(config)
  \/ \E id \in EventIds : Emit(id)
  \/ \E d \in 1..(2 * MaxEmits), ok \in BOOLEAN : FetchCompletes(d, ok)
  \/ \E d \in 1..(2 * MaxEmits) : RetryFires(d)
  \/ QueueContinues

EventInit == Init /\ backend = [type |-> "supabase", constThrows |-> FALSE]

EventSpec == EventInit /\ [][EventNext]_vars

(***************************************************************************)
(* Facade calls in progress together.  getById, update and delete are      *)
(* async methods: each runs up to its next await and other calls run in    *)
(* between.  calls[p] is the position of caller p: the method, its         *)
(* arguments and the value it carries over the await (arg).                *)
(***************************************************************************)
RaceIds == {UuidSeq[1]}
Writes == {"update", "delete"}

InCall(pc, t, op, id, arg) == [pc |-> pc, tenant |-> t, op |-> op, id |-> id, arg |-> arg]
\* the audit entries the writes in progress are going to add
AuditsDue == Cardinality({q \in Callers : calls[q].pc # "idle" /\ calls[q].op \in Writes})

\* getById up to the adapter read: cacheProvider.get, and the return of the
\* cached record if there is one
GetByIdLookup(p, t, id) ==
  /\ calls[p].pc = "idle"
  /\ calls' = [calls EXCEPT ![p] =
                 IF CacheGet(redis, IdKey(id), t).shape # "null" THEN IdleCaller
                 ELSE InCall("read", t, "getById", id, UNDEF)]
  /\ UNCHANGED <<dataVars, migVars, faults, poolVars, session, isoVars, stats, events>>

\* databaseAdapter.read({filter: {id}, limit: 1}) of getById
GetByIdRead(p) ==
  LET c == calls[p]
      a == AdapterRead(backend, store,
                       [filter |-> << <<"id", c.id>> >>, limit |-> 1, offset |-> 0],
                       c.tenant)
      found == Truthy(a.res) /\ a.res.rows # <<>>
  IN  /\ c.pc = "read"
      /\ calls' = [calls EXCEPT ![p] =
                     IF found THEN InCall("set", c.tenant, c.op, c.id, a.res.rows[1])
                     ELSE IdleCaller]
      /\ UNCHANGED <<dataVars, migVars, faults, poolVars, session, isoVars, stats, events>>

\* cacheProvider.set of the record getById read, and its return
GetByIdCache(p) ==
  LET c == calls[p]
  IN  /\ c.pc = "set"
      /\ redis' = CacheSet(redis, IdKey(c.id), RowValue(c.arg), c.tenant, 3600)
      /\ calls' = [calls EXCEPT ![p] = IdleCaller]
      /\ UNCHANGED <<backend, store, audit, issued, last, migVars, faults, poolVars,
                     session, isoVars, stats, events>>

\* update / delete up to the adapter's write: the read of the existing
\* record for the audit trail
WriteBegin(p, t, op, id, updates) ==
  /\ calls[p].pc = "idle"
  /\ op \in Writes
  /\ Len(audit) + AuditsDue < MaxAudit
  /\ calls' = [calls EXCEPT ![p] = InCall("write", t, op, id, updates)]
  /\ UNCHANGED <<dataVars, migVars, faults, poolVars, session, isoVars, stats, events>>

\* databaseAdapter.update / databaseAdapter.delete; a call whose write finds
\* no record ends here
WriteStore(p) ==
  LET c == calls[p]
      a == IF c.op = "update" THEN AdapterUpdate(backend, store, c.id, c.arg, c.tenant)
           ELSE AdapterDelete(backend, store, c.id, c.tenant)
      done == IF c.op = "update" THEN Truthy(a.res)
              ELSE a.res.kind = "ok" /\ a.res.shape = "undefined"
  IN  /\ c.pc = "write"
      /\ store' = a.st
      /\ calls' = [calls EXCEPT ![p] =
                     IF ~done THEN IdleCaller
                     ELSE InCall("cache", c.tenant, c.op, c.id,
                                 IF c.op = "update" THEN a.res.rows[1] ELSE UNDEF)]
      /\ UNCHANGED <<backend, redis, audit, issued, last, migVars, faults, poolVars,
                     session, isoVars, stats, events>>

\* the rest of update / delete: cacheProvider.set of the updated record or
\* cacheProvider.delete of the key, then the audit entry
WriteCache(p) ==
  LET c == calls[p]
  IN  /\ c.pc = "cache"
      /\ redis' = IF c.op = "update"
                  THEN CacheSet(redis, IdKey(c.id), RowValue(c.arg), c.tenant, 3600)
                  ELSE CacheDelete(redis, IdKey(c.id), c.tenant)
      /\ audit' = Append(audit, AuditEntry(IF c.op = "update" THEN "UPDATE" ELSE "DELETE",
                                           c.tenant, c.id))
      /\ calls' = [calls EXCEPT ![p] = IdleCaller]
      /\ UNCHANGED <<backend, store, issued, last, migVars, faults, poolVars,
                     session, isoVars, stats, events>>

\* a record to work on
RaceCreate(t, data) ==
  /\ store = <<>>
  /\ Create(t, data, FALSE, TRUE)

RaceNext ==
  \/ \E t \in FacadeTenants, data \in FacadePayloads : RaceCreate(t, data)
  \/ \E p \in Callers, t \in FacadeTenants, id \in RaceIds : GetByIdLookup(p, t, id)
  \/ \E p \in Callers : GetByIdRead(p)
  \/ \E p \in Callers : GetByIdCache(p)
  \/ \E p \in Callers, t \in FacadeTenants, op \in Writes, id \in RaceIds,
        updates \in FacadePayloads :
       WriteBegin(p, t, op, id, updates)
  \/ \E p \in Callers : WriteStore(p)
  \/ \E p \in Callers : WriteCache(p)

\* over a relational backend
RaceInit ==
  /\ Init
  /\ backend.type \in {"postgresql", "mysql", "supabase"}
  /\ backend.constThrows = FALSE

RaceSpec == RaceInit /\ [][RaceNext]_vars

(***************************************************************************)
(* Tenant isolation of the adapters (checked under AdapterSpec).           *)
(***************************************************************************)
AdapterCall == last.layer = "adapter"
AdapterStep == last'.layer = "adapter"

\* the rows of st that are stored under a tenant other than t
OtherTenants(st, t) == SelectSeq(st, LAMBDA r : r.tenant_id # t)
\* the rows of st that are stored under tenant t
OwnOnly(st, t) == SelectSeq(st, LAMBDA r : r.tenant_id = t)
\* the ids of the rows of a sequence
PkSet(st) == {Pk(st[i]) : i \in 1..Len(st)}
ResultIds(res) == {res.rows[k].id : k \in 1..Len(res.rows)}

\* C1: a call made under tenant A never returns, changes or removes a
\* record that is stored under another tenant: every row that another
\* tenant owned before the call is still there unchanged after it, and no
\* returned record is one of those rows.
IsolationStep ==
  AdapterStep =>
    LET others == OtherTenants(store, last'.tenant) IN
      /\ \A i \in 1..Len(others) : \E j \in 1..Len(store') : store'[j] = others[i]
      /\ ResultIds(last'.res) \cap PkSet(others) = {}
\* C1: every adapter step keeps the other tenants' records unreturned,
\* unchanged and in place.
TenantIsolation == [][IsolationStep]_vars

\* C2: read returns only records whose tenant_id is the context's tenant,
\* and every returned record also satisfies the caller's own filter
\* entries, for every QueryOptions value.
ReadReturnsOwnTenant ==
  (AdapterCall /\ last.op = "read") =>
    \A k \in 1..Len(last.res.rows) :
       /\ last.res.rows[k].tenant_id = last.tenant
       /\ MatchesAll(last.res.rows[k], last.options.filter)

\* the id named by a call is the id of a row stored under another tenant
ForeignId(st, id, t) == id \in PkSet(OtherTenants(st, t))

\* C3: update and delete of another tenant's record fail with
\* RESOURCE_NOT_FOUND and a read filtered by its id finds nothing, on every
\* backend.
CrossTenantStep ==
  AdapterStep =>
    /\ (last'.op \in {"update", "delete"} /\ ForeignId(store, last'.id, last'.tenant))
         => (last'.res.kind = "throw" /\ last'.res.code = RESOURCE_NOT_FOUND)
    /\ (last'.op = "read" /\ \E i \in 1..Len(last'.options.filter) :
            /\ last'.options.filter[i][1] = "id"
            /\ ForeignId(store, last'.options.filter[i][2], last'.tenant))
         => last'.res.rows = <<>>
\* C3: every adapter step on another tenant's id is refused as not found.
CrossTenantNotFound == [][CrossTenantStep]_vars

\* C4: update and delete give tenant t the same outcome on the store as it
\* is and on the store without the other tenants' records, on the adapter
\* and through both facades: an id that belongs to another tenant and an id
\* that does not exist are told apart by nothing.
FacadeOf(st) == [st |-> st, rd |-> redis, au |-> audit]

SameOutcomeForForeignAndMissing ==
  \A t \in Tenants, id \in Uuids :
    LET own == OwnOnly(store, t) IN
      /\ AdapterDelete(backend, store, id, t).res = AdapterDelete(backend, own, id, t).res
      /\ FDelete(backend, FacadeOf(store), id, t, FALSE, TRUE).res
           = FDelete(backend, FacadeOf(own), id, t, FALSE, TRUE).res
      /\ backend.type = "supabase" =>
           DmDelete(FacadeOf(store), id, t).res = DmDelete(FacadeOf(own), id, t).res
      /\ \A updates \in Payloads :
           /\ AdapterUpdate(backend, store, id, updates, t).res
                = AdapterUpdate(backend, own, id, updates, t).res
           /\ FUpdate(backend, FacadeOf(store), id, updates, t, FALSE, FALSE, TRUE).res
                = FUpdate(backend, FacadeOf(own), id, updates, t, FALSE, FALSE, TRUE).res
           /\ backend.type = "supabase" =>
                DmUpdate(FacadeOf(store), id, updates, t).res
                  = DmUpdate(FacadeOf(own), id, updates, t).res

\* an update or delete has just been refused for an id that is stored under
\* another tenant
ForeignIdRefused ==
  /\ AdapterCall
  /\ last.op \in {"update", "delete"}
  /\ last.res.kind = "throw"
  /\ ForeignId(store, last.id, last.tenant)

\* C5: every record that create or bulkCreate persists under a context
\* carries that context's tenant_id, whatever tenant_id the payload names;
\* for bulkCreate, every record of the batch.
StampStep ==
  (AdapterStep /\ last'.op \in {"create", "bulkCreate"}) =>
    \A j \in 1..Len(store') :
       Pk(store'[j]) \notin PkSet(store) => store'[j].tenant_id = last'.tenant
\* C5: every create and bulkCreate step persists only records of the
\* context's tenant.
CreateStampsTenant == [][StampStep]_vars

(***************************************************************************)
(* The cache of the facade (checked under Spec).                           *)
(***************************************************************************)
FacadeCall == last.layer = "facade"

\* C6: each read, getById and search of a run with the cache enabled
\* returns what the same call of the same run returns with no cache, the
\* count included.
CacheTransparent ==
  (FacadeCall /\ last.op \in {"read", "getById", "search"}) => last.res = last.ref

\* the facade update or delete that was just made succeeded
WriteSucceeded ==
  /\ FacadeCall
  /\ \/ last.op = "update" /\ last.res.kind = "ok" /\ last.res.shape = "row"
     \/ last.op = "delete" /\ last.res = OkUndefined

\* the versions of the written record that a later call may return: the
\* updated record (as it is, or as JSON gives it back), none after a delete
CurrentVersions ==
  IF last.op = "update" THEN {last.res.rows[1], JsonRow(last.res.rows[1])} ELSE {}

\* C7: after a successful facade update or delete, whatever skipCache and
\* invalidateCache were, getById of that record and every read under the
\* same tenant return no version of the record other than the current one
\* (none at all after a delete).
NoStaleAfterWrite ==
  WriteSucceeded =>
    /\ LET byId == FGetById(backend, Facade, last.id, last.tenant, TRUE, TRUE).res
       IN \A k \in 1..Len(byId.rows) : byId.rows[k] \in CurrentVersions
    /\ \A options \in FacadeOptions :
         LET r == FRead(backend, Facade, options, last.tenant, TRUE, TRUE).res
         IN \A k \in 1..Len(r.rows) :
              r.rows[k].id = last.id => r.rows[k] \in CurrentVersions

\* C8: after a successful facade create that returned r, getById(r.id) and
\* read filtered by r.id under the same context return r (which carries the
\* generated id, the timestamps and the context's tenant_id), with and
\* without the cache.
CreateThenReadById ==
  (FacadeCall /\ last.op = "create" /\ Truthy(last.res)) =>
    LET r == last.res.rows[1]
        byId == [filter |-> << <<"id", r.id>> >>, limit |-> 0, offset |-> 0]
    IN /\ r.id \in Uuids /\ r.tenant_id = last.tenant
       /\ r.created_at # UNDEF /\ r.updated_at # UNDEF
       /\ \A useCache \in BOOLEAN :
            /\ FGetById(backend, Facade, r.id, last.tenant, useCache, TRUE).res = OkRow(r)
            /\ FRead(backend, Facade, byId, last.tenant, useCache, TRUE).res.rows = <<r>>

(***************************************************************************)
(* Tenant scoping of the cache keys (checked under CacheSpec).             *)
(***************************************************************************)
CacheCalled == last.layer = "cache"
CacheStep == last'.layer = "cache"

\* the entries of tenant t: those written by a call made under t
EntriesOf(rd, t) == {p \in DOMAIN rd : rd[p].owner = t}
\* the value tenant t stored under logical key k, null when it stored none
StoredBy(rd, t, k) ==
  LET ps == {p \in EntriesOf(rd, t) : rd[p].lkey = k}
  IN IF ps = {} THEN NullValue ELSE rd[CHOOSE p \in ps : TRUE].val

KeyInjective ==
  \A t1 \in CacheTenants, t2 \in CacheTenants, k1 \in CacheKeys, k2 \in CacheKeys :
     getTenantKey(k1, t1) = getTenantKey(k2, t2) => (t1 = t2 /\ k1 = k2)

\* C9: the physical key is injective in (tenant, logical key), and a call
\* under tenant B leaves every entry of every other tenant as it was and
\* answers from B's own entries only: get and mget return what B stored
\* under the key (null if nothing), exists tells whether B stored the key,
\* increment counts from B's own counter.
CacheIsolatedStep ==
  CacheStep =>
    LET t == last'.tenant IN
      /\ KeyInjective
      /\ \A p \in DOMAIN redis :
           redis[p].owner # t => (p \in DOMAIN redis' /\ redis'[p] = redis[p])
      /\ \A p \in DOMAIN redis' : p \notin DOMAIN redis => redis'[p].owner = t
      /\ last'.op \in {"get", "mget"} =>
           \A i \in 1..Len(last'.keys) :
              last'.vals[i] = StoredBy(redis, t, last'.keys[i])
      /\ last'.op = "exists" =>
           last'.flag = (StoredBy(redis, t, last'.keys[1]) # NullValue)
      /\ (last'.op = "increment" /\ last'.flag) =>
           last'.vals[1] = NumValue(StoredBy(redis, t, last'.keys[1]).num + 1)
\* C9: every cache step reads and changes the calling tenant's entries only.
TenantKeysIsolated == [][CacheIsolatedStep]_vars

\* a call under one tenant named a logical key that another tenant holds
SameKeyOtherTenant ==
  /\ CacheCalled
  /\ last.op \in {"get", "exists", "mget", "delete", "increment"}
  /\ \E p \in DOMAIN redis :
       /\ redis[p].owner # last.tenant
       /\ \E i \in 1..Len(last.keys) : last.keys[i] = redis[p].lkey

\* C10: clearTenant(T) leaves no entry of tenant T and leaves every entry
\* of every other tenant as it was.
ClearTenantStep ==
  (CacheStep /\ last'.op = "clearTenant") =>
    /\ EntriesOf(redis', last'.tenant) = {}
    /\ DOMAIN redis' = DOMAIN redis \ EntriesOf(redis, last'.tenant)
    /\ \A p \in DOMAIN redis' : redis'[p] = redis[p]
RunsInProgress == {r \in Runs : InProgress(runs[r])}
\* the step starts call r: it passed the isLocked check and took the lock
Starts(r) == runs[r].pc = "idle" /\ runs'[r].pc = "locked"
\* the step ends call r, which had the lock
Ends(r) == InProgress(runs[r]) /\ runs'[r].pc = "idle"
\* the step rejects a call at the isLocked check
Rejects == finished' # finished /\ ~finished'.held

\* C11: on one MigrationManager at most one call of runMigrations or
\* rollbackTo is in progress at any time; a call made while another one is
\* in progress is rejected with the 409 error and runs no script.
OneRunAtATime ==
  [][/\ \A r \in Runs : Starts(r) => RunsInProgress = {}
     /\ (RunsInProgress # {} /\ Rejects)
          => /\ finished'.out = AlreadyInProgress
             /\ finished'.results = <<>>
             /\ migrations' = migrations]_vars

\* C12: whenever a call of runMigrations or rollbackTo that took the lock
\* ends (it returns its results, stops on a failed migration, or throws a
\* validation error or an adapter's exception), the lock is free afterwards:
\* a call that comes next is not rejected as already in progress.
LockFreeAfterRun ==
  [][\A r \in Runs : Ends(r) => finished'.held /\ ~isLocked']_vars
\* a call that held the lock has thrown, and the lock is free
ThrewAndReleased ==
  /\ finished.held
  /\ finished.out.kind = "throw"
  /\ finished.out.cls = "DataError"
  /\ ~isLocked

(***************************************************************************)
(* Runs of migrations (checked under MigrationSpec).                       *)
(***************************************************************************)
\* the step is an iteration of the loop of call r, of the given kind
LoopStep(r, kind) ==
  /\ runs[r].pc = "loop"
  /\ runs[r].kind = kind
  /\ runs'[r] # runs[r]
\* the result the iteration adds
Added(r) ==
  IF runs'[r].pc = "loop" THEN runs'[r].results[Len(runs'[r].results)]
  ELSE finished'.results[Len(finished'.results)]
\* the results the last ended call returned
Returned == {finished.results[i] : i \in 1..Len(finished.results)}
\* the last ended call is a runMigrations that returned every migration completed
AllCompleted ==
  /\ finished.kind = "run"
  /\ finished.out = OkUndefined
  /\ Returned # {}
  /\ \A res \in Returned : res.status = COMPLETED

\* C13: after a runMigrations that ended with every migration completed, a
\* second runMigrations executes the forward script of none of them, and
\* getMigrationStatus().pending is 0; no forward script is executed for an
\* id that has a completed record.
SecondRunExecutesNothing ==
  [][\A r \in Runs : LoopStep(r, "run") =>
       LET id == Head(runs[r].todo)
       IN  /\ (AllCompleted /\ RunsInProgress = {r} /\ id \in {res.id : res \in Returned})
                => ~Added(r).ran
           /\ migrations[id] = COMPLETED => ~Added(r).ran
           /\ (runs'[r].pc = "idle" /\ AllCompleted)
                => getMigrationStatus(backend, migrations').pending = 0]_vars

\* C14: when the forward script of a migration of a batch fails, the
\* migration is recorded failed, the rows of the other migrations stay as
\* they are (those executed before it completed), and the call ends there:
\* no later migration of the batch gets a running row or has its script run.
FailureStopsBatch ==
  [][\A r \in Runs : (LoopStep(r, "run") /\ Added(r).ran /\ ~Added(r).ok) =>
       LET id == Head(runs[r].todo)
       IN  /\ Added(r).status = FAILED
           /\ migrations'[id] = FAILED
           /\ \A other \in MigIds \ {id} : migrations'[other] = migrations[other]
           /\ runs'[r].pc = "idle"]_vars

\* the place of an id in the ascending order of ids
IdRank(id) == CHOOSE i \in 1..MaxMigs : MigSeq[i] = id
Ascending(ids) == \A i, j \in 1..Len(ids) : i < j => IdRank(ids[i]) < IdRank(ids[j])

\* C15: runMigrations executes the pending migrations in ascending order of
\* id, whatever the order of the caller's list: the ids its loop visits are
\* ascending.
AscendingIdOrder ==
  \A r \in Runs : (runs[r].kind = "run" /\ runs[r].pc = "loop") => Ascending(runs[r].todo)

\* the status changes of a record that the state machine allows.  A loop
\* iteration writes the running row and its final status in one step, so
\* pending -> running -> completed shows as ABSENT to COMPLETED; the removal
\* of a completed record is the rollback
AllowedChange(from, to) ==
  \/ from = ABSENT /\ to \in {RUNNING, COMPLETED, FAILED}
  \/ from = RUNNING /\ to \in {COMPLETED, FAILED}
  \/ from = COMPLETED /\ to = ABSENT

\* C16: a migration record only goes pending -> running -> completed or
\* running -> failed, and failed is terminal: a runMigrations that reaches a
\* migration whose record is failed does not execute its forward script and
\* leaves the record failed.
FailedIsTerminal ==
  [][/\ \A id \in MigIds :
          migrations'[id] # migrations[id] => AllowedChange(migrations[id], migrations'[id])
     /\ \A r \in Runs :
          (LoopStep(r, "run") /\ migrations[Head(runs[r].todo)] = FAILED)
            => /\ ~Added(r).ran
               /\ migrations'[Head(runs[r].todo)] = FAILED]_vars

(***************************************************************************)
(* Rollback (checked under MigrationSpec).                                 *)
(***************************************************************************)
Descending(ids) ==
  \A i, j \in 1..Len(ids) : i < j => VersionOf(ids[i]) > VersionOf(ids[j])
\* the step in which rollbackTo call r gets its list and enters the loop
EntersRollback(r) ==
  /\ runs[r].kind = "rollback"
  /\ runs[r].pc = "locked"
  /\ runs'[r].pc = "loop"

\* C17: rollbackTo(version) rolls back exactly the completed migrations
\* whose version is newer than the target, newest first (its loop visits
\* them in descending order of version), and stops at the first reverse
\* script that fails, leaving that record and the older ones in place.
RollbackNewestFirst ==
  [][\A r \in Runs :
       /\ EntersRollback(r) =>
            /\ {runs'[r].todo[i] : i \in 1..Len(runs'[r].todo)} =
                 {id \in MigIds : /\ migrations[id] = COMPLETED
                                  /\ VersionOf(id) > runs[r].target}
            /\ Descending(runs'[r].todo)
       /\ (LoopStep(r, "rollback") /\ Added(r).ran /\ ~Added(r).ok) =>
            /\ Added(r).status = FAILED
            /\ migrations' = migrations
            /\ runs'[r].pc = "idle"]_vars

CallEnds == (\E r \in Runs : Ends(r)) \/ (runs' = runs /\ finished' # finished)

\* C19: a runMigrations whose list has a migration with an empty id, name,
\* forward or reverse script fails with a configuration error, and no
\* forward script has been executed and no migration record written by it.
InvalidListRefused ==
  [][(CallEnds /\ finished'.kind = "run" /\ ~finished'.valid) =>
       /\ finished'.out.kind = "throw"
       /\ finished'.out.code = CONFIGURATION_ERROR
       /\ finished'.results = <<>>
       /\ migrations' = migrations]_vars

(***************************************************************************)
(* Audit logging of the facade (checked under Spec).                       *)
(***************************************************************************)
\* C20: when the write of the audit entry fails, the create, update, delete
\* or bulkCreate that asked for it still returns what it returns when the
\* write succeeds, the adapter's success result, and raises no error.
AuditFailureHarmless ==
  (last.layer = "facade" /\ ~last.audited) =>
    /\ last.res = last.aref
    /\ last.res.kind = "ok"
\* an update whose audit write failed has returned the updated row
AuditWriteFailed ==
  /\ last.layer = "facade"
  /\ last.op = "update"
  /\ ~last.audited
  /\ Truthy(last.res)
  /\ \E i \in 1..Len(audit) : audit[i].action = "UPDATE"

\* C21: a cache command that fails during a facade create, update, delete,
\* read or getById never turns the call into a failure: whenever the same
\* call on a facade without a cache provider succeeds, the call succeeds.
CacheFailureHarmless ==
  (last.layer = "faulty" /\ last.ref.kind = "ok") => last.res.kind = "ok"

\* the adapter applied the mutation of the facade step: a row was added,
\* a row was removed, or the update was written to a row
MutationApplied ==
  CASE last'.op = "create" -> Len(store') > Len(store)
    [] last'.op = "delete" -> Len(store') < Len(store)
    [] OTHER -> store' # store \/ Truthy(last'.res)

\* C22: a facade create, update or delete whose audit write does not fail
\* appends one audit entry if the adapter applied the mutation and none if
\* it did not.
AuditFollowsMutationStep ==
  (last'.layer = "facade" /\ last'.op \in {"create", "update", "delete"}
     /\ last'.audited) =>
    /\ MutationApplied => Len(audit') = Len(audit) + 1
    /\ ~MutationApplied => audit' = audit
\* C22: every facade mutation step appends an audit entry exactly when the
\* adapter applied the mutation.
AuditFollowsMutation == [][AuditFollowsMutationStep]_vars

\* C23: a facade bulkCreate that reports success has persisted every input
\* record and returns all of them; it never answers with a success that
\* carries only part of the input because a batch was rejected.
BulkAllOrFailureStep ==
  (last'.layer = "facade" /\ last'.op = "bulkCreate" /\ last'.res.kind = "ok") =>
    /\ Len(last'.res.rows) = issued' - issued
    /\ Len(store') = Len(store) + (issued' - issued)
\* C23: every facade bulkCreate step is all-or-failure.
BulkAllOrFailure == [][BulkAllOrFailureStep]_vars

\* C24: when commit or rollback of a transaction handle finishes, by
\* returning or by throwing, the handle's connection (session) is back in
\* the pool and the handle holds nothing.
TransactionEndStep ==
  (last'.layer = "pool" /\ last'.op \in {"commit", "rollback"}) =>
    /\ last'.id \in inUse
    /\ last'.id \notin inUse'
    /\ last'.id \notin txns'
\* C24: every commit and every rollback step releases the connection.
TransactionEndReleases == [][TransactionEndStep]_vars
\* a commit threw and its connection is free again
CommitThrewAndReleased ==
  /\ last.layer = "pool"
  /\ last.op = "commit"
  /\ last.res.kind = "throw"
  /\ last.id \notin inUse

\* C25: every connection that testConnection, beginTransaction or
\* runMigrations took from the pool is back in the pool when the operation
\* has returned or thrown, unless it was handed to the caller in a
\* transaction handle: no connection is checked out and held by nobody.
NoConnectionLeaked == inUse = txns

\* C26: the statement of a raw query(sql, params, ctx) executes on a
\* session whose tenant context is ctx.tenant_id, whatever other raw
\* queries run concurrently on the same adapter.
RawQueryUnderOwnTenant ==
  (last.layer = "raw" /\ last.op = "query") => last.id = last.tenant

\* a call of setupTenantIsolation ends in this step
SetupReturns == setup'.pc = 0 /\ setup'.done # setup.done

\* C27: every call of setupTenantIsolation succeeds, and a call that
\* follows calls for the same tenant leaves the database objects the call
\* before it left.
IdempotentStep ==
  SetupReturns =>
    /\ last'.res.kind = "ok"
    /\ setup'.done > 1 => isolation' = setup.after
\* C27: setupTenantIsolation is idempotent at every step that ends a call.
SetupIdempotent == [][IdempotentStep]_vars

\* the values of a result that are a value (found) / null (not found)
FoundIn(vals) == Cardinality({i \in 1..Len(vals) : vals[i].shape # "null"})
MissedIn(vals) == Cardinality({i \in 1..Len(vals) : vals[i].shape = "null"})

\* C28: a get or mget adds to hits the lookups that found a value and to
\* misses those that found none, and after it hitRate is
\* hits / (hits + misses), 0 when both are 0.
HitRateStep ==
  (last'.layer = "cache" /\ last'.op \in {"get", "mget"}) =>
    /\ stats'.hits = stats.hits + FoundIn(last'.vals)
    /\ stats'.misses = stats.misses + MissedIn(last'.vals)
    /\ IF stats'.hits + stats'.misses = 0
         THEN stats'.hitRate[1] = 0
         ELSE stats'.hitRate[1] * (stats'.hits + stats'.misses)
                = stats'.hits * stats'.hitRate[2]
\* C28: the statistics are exact after every get and mget step.
HitRateExact == [][HitRateStep]_vars

\* C29: a lock that is held is released after a while even if the run that
\* took it never takes another step, so that a later call finds it free.
LockEventuallyFree == isLocked ~> ~isLocked
\* the first call is still in progress and a later call has acquired the
\* lock
AcquiredAfterForceRelease == InProgress(runs[1]) /\ InProgress(runs[2])

\* the required fields of a backend type, in the order they are asked for,
\* and what the error for each says
RequiredFields(type) ==
  IF type = "supabase" THEN <<"supabaseUrl", "supabaseAnonKey">>
  ELSE <<"host", "database", "username", "password">>
RequiredMessage(field) ==
  CASE field = "host" -> "Database host is required"
    [] field = "database" -> "Database name is required"
    [] field = "username" -> "Database username is required"
    [] field = "password" -> "Database password is required"
    [] field = "supabaseUrl" -> "Supabase URL is required"
    [] OTHER -> "Supabase anonymous key is required"
\* the positions of the required fields the config has no value for
Missing(config) ==
  {i \in 1..Len(RequiredFields(config.type)) :
     config[RequiredFields(config.type)[i]] \in {UNDEF, ""}}
FirstMissing(config) ==
  RequiredFields(config.type)[CHOOSE i \in Missing(config) :
                                \A j \in Missing(config) : i <= j]

\* C30: createWithValidation fails with CONFIGURATION_ERROR for a config of
\* a SQL or Supabase type that lacks a required field, and the error is the
\* one of the first missing field; it returns an adapter only for a config
\* that has every required field.
FirstMissingFieldReported ==
  last.layer = "factory" =>
    /\ (last.options.type \in getSupportedTypes /\ Missing(last.options) # {}) =>
         /\ last.res.kind = "throw"
         /\ last.res.code = CONFIGURATION_ERROR
         /\ last.res.msg = RequiredMessage(FirstMissing(last.options))
    /\ last.res.kind = "ok" =>
         /\ last.options.type \in getSupportedTypes
         /\ Missing(last.options) = {}
\* a config without database and password was refused for its database
RefusedForSecondField ==
  /\ last.layer = "factory"
  /\ last.options.type = "mysql"
  /\ last.options.host = "v"
  /\ last.options.database = UNDEF
  /\ last.options.password = UNDEF
  /\ last.res.msg = "Database name is required"

(***************************************************************************)
(* Lock timers, recorded status and rejected calls (checked under          *)
(* MigrationSpec).                                                         *)
(***************************************************************************)
\* the step is the callback of a lock timer
TimerStep == timers' < timers
\* the lock is held by the only call in progress, which is then the last
\* one that acquired it and armed the newest timer, and an older timer is
\* pending: timers of one delay fire in the order they were armed, so the
\* one that fires next was armed by a call that has ended
StaleTimerPending ==
  /\ isLocked
  /\ Cardinality(RunsInProgress) = 1
  /\ timers > 1

\* C31: the timer armed when a call acquires the lock only ever releases
\* that call's own lock: when the timer of a call that has ended fires
\* while a later call holds the lock, the lock stays held.
StaleTimerSparesLock ==
  [][(TimerStep /\ StaleTimerPending) => isLocked']_vars

\* C32: a migration is recorded completed only if the backend executed its
\* forward script successfully: an iteration of runMigrations gives the
\* result completed, or writes a completed record, only when the script ran
\* and succeeded, also when the adapter reports the failure as an error
\* result.
CompletedOnlyIfExecuted ==
  [][\A r \in Runs : LoopStep(r, "run") =>
       LET id == Head(runs[r].todo)
       IN  /\ Added(r).status = COMPLETED => Added(r).ok
           /\ (migrations'[id] = COMPLETED /\ migrations[id] # COMPLETED)
                => Added(r).ok]_vars

\* C34: a runMigrations or rollbackTo that is rejected because the lock is
\* held changes nothing: the lock stays held, no timer is armed, no record
\* is written, no call in progress is touched and the call returns no
\* result of a script.
RejectedCallChangesNothing ==
  [][Rejects =>
       /\ isLocked /\ isLocked'
       /\ timers' = timers
       /\ migrations' = migrations
       /\ runs' = runs
       /\ finished'.results = <<>>]_vars
\* a rollbackTo has been rejected while a call in progress holds the lock
RejectedWhileLocked ==
  /\ finished.kind = "rollback"
  /\ ~finished.held
  /\ finished.out = AlreadyInProgress
  /\ isLocked
  /\ \E r \in Runs : runs[r].pc = "loop"

\* C35: when the reverse script of a migration fails during rollbackTo, the
\* record of that migration stays as it was (completed) and so do the
\* records of the migrations the call has not rolled back yet.
FailedRollbackKeepsRecords ==
  [][\A r \in Runs :
       (LoopStep(r, "rollback") /\ Added(r).ran /\ ~Added(r).ok) =>
         \A i \in 1..Len(runs[r].todo) :
           migrations'[runs[r].todo[i]] = migrations[runs[r].todo[i]]]_vars

(***************************************************************************)
(* The tenant of a stored record (checked under AdapterSpec).              *)
(***************************************************************************)
\* C33: the tenant_id of a stored record never changes: an update leaves
\* every record under the tenant it was stored under, also when the patch
\* names tenant_id with another tenant's id, so the record it updated is
\* still the context's.
TenantIdImmutable ==
  [][(AdapterStep /\ last'.op = "update") =>
       /\ Len(store') = Len(store)
       /\ \A i \in 1..Len(store) :
            /\ Pk(store'[i]) = Pk(store[i])
            /\ store'[i].tenant_id = store[i].tenant_id]_vars

(***************************************************************************)
(* Cache and store after concurrent calls (checked under RaceSpec).        *)
(***************************************************************************)
Quiet == \A p \in Callers : calls[p].pc = "idle"
\* the record a read by id under tenant t gets from the adapter now
Stored(t, id) ==
  AdapterRead(backend, store,
              [filter |-> << <<"id", id>> >>, limit |-> 1, offset |-> 0], t).res
\* the entry under the record's key is absent or holds the stored record
\* (as JSON, the form a cached value has)
Coherent(t, id) ==
  LET cached == CacheGet(redis, IdKey(id), t)
  IN  \/ cached.shape = "null"
      \/ /\ cached.shape = "row"
         /\ Truthy(Stored(t, id))
         /\ Stored(t, id).rows # <<>>
         /\ cached.rows[1] = JsonRow(Stored(t, id).rows[1])

\* C36: whatever the interleaving of a getById with an update or a delete
\* of the same record under the same tenant, once the calls have finished
\* the cache entry of the record is absent or equal to the stored record.
CacheCoherentAfterRace ==
  Quiet => \A t \in FacadeTenants, id \in RaceIds : Coherent(t, id)

(***************************************************************************)
(* Expiry of cache entries (checked under CacheSpec).                      *)
(***************************************************************************)
\* the physical keys a set or mset step wrote
Written ==
  {k \in DOMAIN redis' :
     /\ last'.op \in {"set", "mset"}
     /\ \E i \in 1..Len(last'.keys) : k = getTenantKey(last'.keys[i], last'.tenant)
     /\ (k \in DOMAIN redis => redis'[k] # redis[k])}

ReachesFailure ==
  /\ last'.layer = "tx"
  /\ migrations[last'.failing] = ABSENT
  /\ \E i \in 1..Len(last'.list) : last'.list[i].id = last'.failing

\* C38: runMigrations of the PostgreSQL and MySQL adapters is all or
\* nothing: when a migration of the list fails, the call throws and neither
\* a schema change nor a migrations row of that call persists.
AllOrNothing ==
  [][(last'.failing # NoMigration /\ ReachesFailure) =>
       /\ last'.res.kind = "throw"
       /\ migrations' = migrations
       /\ isolation' = isolation]_vars

(***************************************************************************)
(* Webhook delivery (checked under EventSpec).                             *)
(***************************************************************************)
\* C39: for each emitted event and each configured destination, delivery is
\* attempted at most retryAttempts times in all, no attempt follows a
\* successful one, and the retry counter of the event is cleared once the
\* delivery has succeeded or has given up.
DeliveryBounded ==
  [][events'.constructed =>
       \A d \in 1..Len(events'.deliveries) :
         LET dl == events'.deliveries[d] IN
           /\ dl.attempts <= events'.config.retryAttempts
           /\ dl.pc = "done" => events'.webhookRetries[RetryKey(dl.type, dl.id)] = 0
           /\ (events.constructed /\ d <= Len(events.deliveries)
                 /\ events.deliveries[d].delivered)
                => dl = events.deliveries[d]]_vars

====
